---- MODULE Spec2Model ----
(***************************************************************************)
(* State-machine model of the campaign engine of linkedin_automation:      *)
(*   features/connections.py  ConnectionManager (connection campaign)      *)
(*   features/jobs.py         JobApplicationManager (job campaign)         *)
(*   utils/decorators.py      retry / safe_operation                       *)
(* The remote browser session (selenium driver) is the environment: the    *)
(* outcome of a driver call is a nondeterministic choice among the results *)
(* that call can produce.  KeyboardInterrupt is a BaseException: no        *)
(* "except Exception" clause (retry, safe_operation, the inner try/except  *)
(* blocks) catches it, so it unwinds to run_*_campaign.                    *)
(***************************************************************************)
EXTENDS Integers, Sequences, FiniteSets, TLC

(* ---------------- bounds of the explored environment ---------------- *)
MaxPages == 3
MaxTargets == 3
MaxLimit == 2
MaxTabsArg == 2
MaxCards == 2
MaxFaults == 1
MaxRetryAttempts == 3
MaxLabels == 6
MaxFilled == 2
MaxObservedFilled == 1
MaxConstructions == 4
MaxCleanups == 3
MaxSleepCalls == 260
MaxFormSteps == 3
MaxBoxes == 2
MaxPasses == 2
MaxThreads == 3

(* ---------------- program constants ---------------- *)
MAX_TABS == 3
RetryMaxAttempts == 2
RetryDefaultAttempts == 3
FirstWindow == 1

None == 0
NoWindow == None

VARIABLES
    kind,               \* which campaign entry point was called
    next_page,          \* history: outcome of the last go_to_next_page and how often
                        \* retry.wrapper invoked its body
    pc,                 \* position of the single controller thread
    page,               \* results page the session is on (0 before navigation)
    handles,            \* driver.window_handles
    focus,              \* driver.current_window_handle (NoWindow: closed context)
    main_window,        \* ConnectionManager.main_window
    max_connections,    \* ConnectionManager.max_connections
    max_tabs,           \* local max_tabs of run_connection_campaign
    connection_count,   \* ConnectionManager.connection_count
    nbuttons,           \* len(button_list) in process_connection_buttons
    idx,                \* position of the for loop in process_connection_buttons
    tabs_to_process,    \* rest of tabs_to_process in process_opened_tabs
    drain_caller,       \* call site of process_opened_tabs: "loop" or "final"
    initial_count,      \* local initial_count of process_opened_tabs
    last_dispatch,      \* history: outcome of the last target dispatched on this page
    drain_successes,    \* history: tabs of this drain where connect returned True
    tab_attempts,       \* attempts of retry.wrapper around connect_in_profile_tab
    stats,              \* returned statistics record (<<>> while none)
    max_applications,   \* JobApplicationManager.max_applications
    application_count,  \* JobApplicationManager.application_count
    viewed_jobs_count,  \* JobApplicationManager.viewed_jobs_count
    cards_left,         \* job cards of the current page not yet iterated
    attempts,           \* local attempts of retry.wrapper around apply_to_job
    submit_clicks,      \* clicks on 'Submit application' for the current card
    count_at_dispatch,  \* application_count when the current card was dispatched
    last_outcome,       \* outcome of the last run of the body of apply_to_job
    record_calls,       \* history: calls of process_job_search_page (result sink)
    status_calls,       \* history: calls of update_job_status (result sink)
    discovered,         \* history: discovery ran on this page (main loop only)
    interrupted,        \* history: KeyboardInterrupt was raised
    work_after_interrupt, \* history: discovery/dispatch/advance after interrupt
    final_drain_ran,    \* history: the drain of the finally block completed
    faults,             \* history: driver failures injected during drains
    targets_left,       \* environment: targets of the result set not yet listed
    untouched,          \* history: targets left on the page by the quota stop
    r_pc,               \* position inside retry.wrapper
    r_max_attempts,     \* max_attempts the decorator was built with
    r_plan,             \* environment: what func does on its i-th invocation
    r_attempts,         \* local attempts of retry.wrapper
    r_calls,            \* history: invocations of func by this call of wrapper
    r_slept,            \* history: attempts after which time.sleep(delay_seconds) ran
    r_caught,           \* history: exceptions caught by the except clause, in order
    r_result,           \* value returned by wrapper (None while none)
    r_error,            \* exception that left wrapper ("none" while none)
    f_pc,               \* position of the handling of one form field
    f_category,         \* which _fill_form_* method handles the field
    field_label,        \* the field's label as read from the page
    profile_data,       \* CONFIG["profile"]: key/value pairs in dict order
    matched_key,        \* local matched_key (NoKey: None)
    config_store,       \* [profile] section of config.toml, in file order
    loaded_profile,     \* history: CONFIG["profile"] as load_config() returned it
    store_write,        \* history: how the file update of the augmentation went
    m_pc,               \* position of cli.main
    command,            \* args_dict['command']
    login_calls,        \* history: calls of auth.login made by main
    login_attempts,     \* attempts of retry.wrapper around the body of login
    login_success,      \* what auth.login returned ("none" before it returns)
    b_instance,         \* Browser._instance (None, or the identity of the object)
    b_initialized,      \* _initialized of that object
    b_driver,           \* its driver (None, or the identity of the WebDriver)
    b_wait,             \* its wait (None, or the driver the WebDriverWait is for)
    b_objects,          \* history: Browser objects __new__ has created
    b_drivers,          \* history: WebDrivers started so far
    b_returned,         \* history: what the Browser() calls since the last
                        \* cleanup() returned, in order
    b_started,          \* history: WebDrivers started since the last cleanup()
    b_calls,            \* history: Browser() calls so far
    b_cleanups,         \* history: cleanup() calls so far
    b_quits,            \* history: driver.quit() calls so far
    sleep_call_count,   \* helpers._sleep_call_count
    reduction_factor,   \* reduction_factor of the last call, in 1/FactorScale
    sleep_range,        \* range the last duration was drawn from, in
                        \* 1/(2 * FactorScale) seconds
    fa_pc,              \* position inside _fill_application_form / apply_to_job
    form_step,          \* local form_step (only logged; counted up to MaxFormSteps)
    step_fills,         \* history: the _fill_form_* methods run in this form step
    controls_present,   \* environment: continue controls the last lookup could find
    clicked,            \* history: continue controls the last lookup clicked
    nav_outcome,        \* history: how the last lookup of a continue control ended
    cb_values,          \* profile_data[field_key] of each checkbox of the form step
    cb_selected,        \* is_selected() of each checkbox
    cb_idx,             \* position of the for loop of _fill_form_checkboxes
    cb_pass,            \* history: passes of _fill_form_checkboxes over the step
    cb_clicks,          \* history: checkbox.click() calls of the current pass
    th_pc,              \* position of each thread inside adaptive_sleep
    th_tmp,             \* each thread's value loaded by _sleep_call_count += 1
    th_count,           \* each thread's local count (None while not assigned)
    sleep_lock          \* holder of helpers._sleep_call_lock (None: free)

sessVars == <<page, handles, focus>>
connCfg == <<main_window, max_connections, max_tabs>>
connLocals == <<nbuttons, idx, tabs_to_process, drain_caller, initial_count>>
connHist == <<last_dispatch, drain_successes, tab_attempts>>
connVars == <<connCfg, connection_count, connLocals, connHist>>
jobVars == <<max_applications, application_count, viewed_jobs_count,
             cards_left, attempts, submit_clicks, count_at_dispatch,
             last_outcome, record_calls, status_calls>>
histVars == <<discovered, interrupted, work_after_interrupt, final_drain_ran,
              faults, targets_left, untouched>>
campaignVars == <<kind, next_page, pc, page, handles, focus, stats, connVars, jobVars,
                  histVars>>
retryVars == <<r_pc, r_max_attempts, r_plan, r_attempts, r_calls, r_slept,
               r_caught, r_result, r_error>>
resolveVars == <<f_pc, f_category, field_label, profile_data, matched_key,
                 config_store, loaded_profile, store_write>>
mainVars == <<m_pc, command, login_calls, login_attempts, login_success>>
browserVars == <<b_instance, b_initialized, b_driver, b_wait, b_objects, b_drivers,
                 b_returned, b_started, b_calls, b_cleanups, b_quits>>
sleepVars == <<sleep_call_count, reduction_factor, sleep_range>>
formVars == <<fa_pc, form_step, step_fills, controls_present, clicked, nav_outcome>>
checkboxVars == <<cb_values, cb_selected, cb_idx, cb_pass, cb_clicks>>
threadVars == <<th_pc, th_tmp, th_count, sleep_lock>>
extraVars == <<formVars, checkboxVars, threadVars>>
toolVars == <<mainVars, browserVars, sleepVars, extraVars>>
libVars == <<retryVars, resolveVars, toolVars>>
vars == <<campaignVars, libVars>>

(* ---------------- helpers ---------------- *)
RECURSIVE SetToSeq(_)
SetToSeq(S) ==
    IF S = {} THEN <<>>
    ELSE LET m == CHOOSE x \in S : \A y \in S : x <= y
         IN <<m>> \o SetToSeq(S \ {m})

\* handle given to a newly opened window
NewHandle(hs) == CHOOSE h \in FirstWindow..(Cardinality(hs) + FirstWindow) : h \notin hs

\* driver.switch_to.window(h): the outcomes the call can have.  A closed window
\* cannot be selected; a secondary context may fail to respond.
SwitchOutcomes(h, hs, mw) ==
    IF h \notin hs THEN {"raise"}
    ELSE IF h = mw THEN {"ok"}
    ELSE {"ok", "raise"}

\* focus after driver.switch_to.window(h) with outcome o
SwitchFocus(h, o, cur) == IF o = "ok" THEN h ELSE cur

\* driver.close() closes the focused window; it raises when that context is
\* already closed
CloseRaises(cur, hs, o) == cur = NoWindow \/ cur \notin hs \/ o = "raise"
CloseHandles(cur, hs, o) == IF CloseRaises(cur, hs, o) THEN hs ELSE hs \ {cur}
CloseFocus(cur, hs, o) == IF CloseRaises(cur, hs, o) THEN cur ELSE NoWindow

\* an off-by-one quota test: stops only above the limit
JobQuotaReachedLate(limit, count) == limit > 0 /\ count > limit

\* the quota test of run_job_campaign
JobQuotaReached(limit, count) == limit > 0 /\ count >= limit

\* a version that selects the newly opened window
OpenProfileFocusNew(current_tab, new_tab) == new_tab

\* the window _open_profile_in_new_tab selects after window.open
OpenProfileFocus(current_tab, new_tab) == current_tab

\* a body that lets the verification timeout escape to retry.wrapper
ApplyToJobRaisesOnVerify(outcome) == outcome = "verify_failed"

\* does an outcome of the body of apply_to_job leave the body as an exception
ApplyToJobRaises(outcome) == FALSE

\* the outcomes of the "Connect" branch of process_connection_buttons for one
\* button: request sent; send_connection_request returned False after
\* wait_to_click gave up; button.click() raised; the button element was stale
InlineConnectOutcomes == {"sent", "send_failed", "click_failed", "stale"}

\* a branch that counts a request whose send failed
InlineConnectCountAlways(o) == IF o \in {"sent", "send_failed"} THEN 1 ELSE 0

\* what the "Connect" branch adds to connection_count
InlineConnectCount(o) == IF o = "sent" THEN 1 ELSE 0

\* @retry(max_attempts=2) on wait_to_click and on connect_in_profile_tab
WaitToClickAttempts == 2
ConnectMaxAttempts == 2

\* how often the failing step of a target ran before the target was given up:
\* button.text and button.click() are called directly, the click on the Send
\* button goes through wait_to_click
InlineTries(o) == IF o = "send_failed" THEN WaitToClickAttempts ELSE 1

\* one run of the body of connect_in_profile_tab: request sent and True
\* returned, False returned, StaleElementReferenceException re-raised
ConnectOutcomes == {"sent", "not_sent", "stale"}

\* a body that counts the request before the send is known to have worked
ConnectIncrementEarly(o) == IF o \in {"sent", "stale"} THEN 1 ELSE 0

\* what one run of the body adds to connection_count
ConnectIncrement(o) == IF o = "sent" THEN 1 ELSE 0

\* retry.wrapper runs the body a second time after a first stale element
ConnectSecondAttempt(o1) == o1 = "stale" /\ 1 < ConnectMaxAttempts

\* result of the wrapped connect_in_profile_tab for body outcomes o1, o2
ConnectInProfileTabResult(o1, o2) ==
    LET last == IF ConnectSecondAttempt(o1) THEN o2 ELSE o1
    IN IF last = "stale" THEN "raise" ELSE last

\* what the wrapped connect_in_profile_tab adds to connection_count
ConnectInProfileTabCount(o1, o2) ==
    ConnectIncrement(o1) + (IF ConnectSecondAttempt(o1) THEN ConnectIncrement(o2) ELSE 0)

\* exceptions caught by retry.wrapper around connect_in_profile_tab
ConnectAttemptsCaught(o1, o2) ==
    (IF o1 = "stale" THEN 1 ELSE 0)
    + (IF ConnectSecondAttempt(o1) /\ o2 = "stale" THEN 1 ELSE 0)

\* the value process_opened_tabs returns
ProcessOpenedTabsReturn(count, initial) == count - initial

\* a quota test without the "0 means unlimited" guard
QuotaReachedNoZero(limit, count) == limit <= count

\* a quota test that stops only above the limit
QuotaReachedLate(limit, count) == 0 < limit /\ limit < count

\* the quota test of process_connection_buttons
QuotaReached(limit, count) == 0 < limit /\ limit <= count

\* no call of go_to_next_page has returned a value that is still to be tested
NoCall == <<"none", 0>>

\* go_to_next_page, body: NoSuchElementException and every other Exception are
\* caught inside (connections.py 323-346, jobs.py 706-711), nothing leaves it
NextPageRaises(o) == FALSE

\* retry(max_attempts=2) around it: the body is invoked again only after an
\* exception left it
NextPageCalls(o) == IF NextPageRaises(o) THEN RetryMaxAttempts ELSE 1

\* go_to_next_page: the outcomes on results page p
NextPageOutcomes(p) ==
    IF p < MaxPages THEN {"advanced", "no_next", "error"} ELSE {"no_next", "error"}

(* ---------------- strings and dicts ---------------- *)
NoKey == "None"

\* pat in s
Contains(pat, s) ==
    \E i \in 1..(Len(s) - Len(pat) + 1) : SubSeq(s, i, i + Len(pat) - 1) = pat

UpperChars == "ABCDEFGHIJKLMNOPQRSTUVWXYZ"
LowerChars == "abcdefghijklmnopqrstuvwxyz"

\* str.lower() on one character
LowerChar(c) ==
    IF \E i \in 1..Len(UpperChars) : SubSeq(UpperChars, i, i) = c
    THEN LET i == CHOOSE j \in 1..Len(UpperChars) : SubSeq(UpperChars, j, j) = c
         IN SubSeq(LowerChars, i, i)
    ELSE c

\* str.lower()
RECURSIVE Lower(_)
Lower(s) ==
    IF s = "" THEN ""
    ELSE LowerChar(SubSeq(s, 1, 1)) \o Lower(SubSeq(s, 2, Len(s)))

\* str.replace(a, b) for a single character a
RECURSIVE Replace(_, _, _)
Replace(s, a, b) ==
    IF s = "" THEN ""
    ELSE (IF SubSeq(s, 1, 1) = a THEN b ELSE SubSeq(s, 1, 1))
         \o Replace(SubSeq(s, 2, Len(s)), a, b)

\* str.strip()
RECURSIVE Strip(_)
Strip(s) ==
    IF s = "" THEN ""
    ELSE IF SubSeq(s, 1, 1) = " " THEN Strip(SubSeq(s, 2, Len(s)))
    ELSE IF SubSeq(s, Len(s), Len(s)) = " " THEN Strip(SubSeq(s, 1, Len(s) - 1))
    ELSE s

\* re.sub(r'[^a-z0-9_]', '', s)
KeyChars == "abcdefghijklmnopqrstuvwxyz0123456789_"
RECURSIVE KeepKeyChars(_)
KeepKeyChars(s) ==
    IF s = "" THEN ""
    ELSE (IF Contains(SubSeq(s, 1, 1), KeyChars) THEN SubSeq(s, 1, 1) ELSE "")
         \o KeepKeyChars(SubSeq(s, 2, Len(s)))

\* k in d, d.get(k) and d[k] = v for a dict kept as a sequence of <<key, value>>
HasKey(d, k) == \E i \in 1..Len(d) : d[i][1] = k
Get(d, k) ==
    IF HasKey(d, k) THEN d[CHOOSE i \in 1..Len(d) : d[i][1] = k][2] ELSE ""
Put(d, k, v) ==
    IF HasKey(d, k)
    THEN [i \in 1..Len(d) |-> IF d[i][1] = k THEN <<k, v>> ELSE d[i]]
    ELSE Append(d, <<k, v>>)

\* truth value of a profile value
Truthy(v) == v # ""

(* ---------------- form fields: rule tables ---------------- *)
\* the keys of DEFAULT_CONFIG["profile"], in declaration order
ProfileKeys ==
    << "full_name", "phone", "email", "location", "years_of_experience",
       "work_authorization", "require_sponsorship",
       "education_level", "graduation_date", "field_of_study", "school", "gpa",
       "current_job_title", "current_company", "years_at_current_company",
       "total_years_experience",
       "technical_skills", "soft_skills", "languages",
       "willing_to_relocate", "remote_preference", "expected_salary",
       "reason_for_leaving", "notice_period", "linkedin_profile" >>

DefaultProfile == [i \in 1..Len(ProfileKeys) |-> <<ProfileKeys[i], "">>]

field_mappings ==
    << <<"name", "full_name">>,
       <<"first name", "full_name">>,
       <<"last name", "full_name">>,
       <<"phone", "phone">>,
       <<"email", "email">>,
       <<"address", "location">>,
       <<"city", "location">>,
       <<"years of experience", "years_of_experience">>,
       <<"linkedin", "linkedin_profile">>,
       <<"website", "linkedin_profile">>,
       <<"salary", "expected_salary">>,
       <<"notice period", "notice_period">>,
       <<"university", "school">>,
       <<"college", "school">>,
       <<"institution", "school">>,
       <<"gpa", "gpa">>,
       <<"graduation date", "graduation_date">>,
       <<"company", "current_company">>,
       <<"job title", "current_job_title">>,
       <<"years", "total_years_experience">> >>

dropdown_mappings ==
    << <<"education", "education_level">>,
       <<"degree", "education_level">>,
       <<"field of study", "field_of_study">>,
       <<"major", "field_of_study">>,
       <<"authorization", "work_authorization">>,
       <<"sponsorship", "require_sponsorship">>,
       <<"relocate", "willing_to_relocate">>,
       <<"work location", "remote_preference">>,
       <<"remote", "remote_preference">>,
       <<"language", "languages">> >>

textarea_mappings ==
    << <<"reason", "reason_for_leaving">>,
       <<"leaving", "reason_for_leaving">>,
       <<"skills", "technical_skills">>,
       <<"technical", "technical_skills">>,
       <<"soft skills", "soft_skills">>,
       <<"experience", "total_years_experience">>,
       <<"additional information", "additional_information">> >>

radio_mappings ==
    << <<"relocate", "willing_to_relocate">>,
       <<"work remotely", "remote_preference">>,
       <<"authorized", "work_authorization">>,
       <<"sponsorship", "require_sponsorship">> >>

\* the field categories whose method walks a rule table, and all categories
TableCategories == {"input", "dropdown", "textarea", "radio"}
FieldCategories == TableCategories \cup {"checkbox"}

\* the rule table of a category; _fill_form_checkboxes has none
RuleTable(cat) ==
    CASE cat = "input" -> field_mappings
      [] cat = "dropdown" -> dropdown_mappings
      [] cat = "textarea" -> textarea_mappings
      [] cat = "radio" -> radio_mappings
      [] OTHER -> <<>>

\* the test of one rule: label_pattern in field_label and profile_data.get(key)
\* (both tests are free of effects; the value is looked at first)
RuleApplies(rule, label, pd) == Truthy(Get(pd, rule[2])) /\ Contains(rule[1], label)

\* a walk without the break: the last rule that applies wins
RECURSIVE WalkRulesNoBreak(_, _, _, _, _)
WalkRulesNoBreak(table, i, label, pd, found) ==
    IF i > Len(table) THEN found
    ELSE WalkRulesNoBreak(table, i + 1, label, pd,
                          IF RuleApplies(table[i], label, pd) THEN table[i][2]
                          ELSE found)
MatchRuleLast(table, label, pd) == WalkRulesNoBreak(table, 1, label, pd, NoKey)

\* for label_pattern, profile_key in mappings.items(): from rule i on, the first
\* rule that applies sets matched_key and breaks
RECURSIVE WalkRules(_, _, _, _)
WalkRules(table, i, label, pd) ==
    IF i > Len(table) THEN NoKey
    ELSE IF RuleApplies(table[i], label, pd) THEN table[i][2]
    ELSE WalkRules(table, i + 1, label, pd)
MatchRule(table, label, pd) == WalkRules(table, 1, label, pd)

\* for profile_key in profile_data: from key i on, the first key whose name, "_"
\* replaced by " ", is in the label and whose value is truthy (both tests are
\* free of effects; the value is looked at first)
RECURSIVE WalkKeys(_, _, _)
WalkKeys(pd, i, label) ==
    IF i > Len(pd) THEN NoKey
    ELSE IF Truthy(pd[i][2]) /\ Contains(Replace(pd[i][1], "_", " "), label)
         THEN pd[i][1]
    ELSE WalkKeys(pd, i + 1, label)
DirectMatch(label, pd) == WalkKeys(pd, 1, label)

\* _fill_form_checkboxes: the label with " " replaced by "_" must be a key
CheckboxKey(label, pd) ==
    LET field_key == Replace(label, " ", "_")
    IN IF HasKey(pd, field_key) /\ Truthy(Get(pd, field_key)) THEN field_key
       ELSE NoKey

\* matched_key of a field of category cat whose lowercased label is label
ResolveKey(cat, label, pd) ==
    IF cat \in TableCategories
    THEN LET m == MatchRule(RuleTable(cat), label, pd)
         IN IF m # NoKey THEN m ELSE DirectMatch(label, pd)
    ELSE CheckboxKey(label, pd)

\* _add_missing_field_to_config: the key derived from a label
DerivedKey(label) ==
    KeepKeyChars(Replace(Replace(Strip(Lower(label)), " ", "_"), "-", "_"))

\* labels the page can show
LabelPool ==
    << "Years of Experience", "Soft skills", "I am willing to relocate",
       "Favorite Color", "Current company name", "ID", "Willing to relocate",
       "Phone", "Work-Authorization" >>
Labels ==
    {LabelPool[i] : i \in 1..(IF MaxLabels <= Len(LabelPool) THEN MaxLabels
                               ELSE Len(LabelPool))}

\* field_label.lower() for each label the page can show
LoweredLabel == [raw \in Labels |-> Lower(raw)]

\* the key _add_missing_field_to_config derives from each of these labels
DerivedKeyOf == [raw \in Labels |-> DerivedKey(LoweredLabel[raw])]
LabelOf(label) == CHOOSE raw \in Labels : LoweredLabel[raw] = label

\* profiles: the default keys, at most MaxFilled of them with a value
FilledSets ==
    {{f[i] : i \in 1..MaxFilled} \ {0} : f \in [1..MaxFilled -> 0..Len(ProfileKeys)]}
ProfileWith(S) ==
    [i \in 1..Len(ProfileKeys) |-> <<ProfileKeys[i], IF i \in S THEN "yes" ELSE "">>]

(* ---------------- initial state: after construction ---------------- *)
CampaignInit ==
    /\ kind = "none"
    /\ next_page = NoCall
    /\ pc = "idle"
    /\ page = 0
    /\ handles = {FirstWindow}
    /\ focus = FirstWindow
    /\ main_window = None
    /\ max_connections = 0
    /\ max_tabs = 0
    /\ connection_count = 0
    /\ nbuttons = 0
    /\ idx = 0
    /\ tabs_to_process = <<>>
    /\ drain_caller = "none"
    /\ initial_count = 0
    /\ last_dispatch = "none"
    /\ drain_successes = 0
    /\ tab_attempts = 0
    /\ stats = <<>>
    /\ max_applications = 0
    /\ application_count = 0
    /\ viewed_jobs_count = 0
    /\ cards_left = 0
    /\ attempts = 0
    /\ submit_clicks = 0
    /\ count_at_dispatch = 0
    /\ last_outcome = "none"
    /\ record_calls = 0
    /\ status_calls = 0
    /\ discovered = FALSE
    /\ interrupted = FALSE
    /\ work_after_interrupt = FALSE
    /\ final_drain_ran = FALSE
    /\ faults = 0
    /\ targets_left = MaxTargets
    /\ untouched = 0

\* no decorated function is being called on its own
RetryIdle ==
    /\ r_pc = "idle"
    /\ r_max_attempts = RetryDefaultAttempts
    /\ r_plan = <<>>
    /\ r_attempts = 0
    /\ r_calls = 0
    /\ r_slept = {}
    /\ r_caught = <<>>
    /\ r_result = None
    /\ r_error = "none"

\* no form field is being handled; the profile is the default one
ResolverIdle ==
    /\ f_pc = "idle"
    /\ f_category = "none"
    /\ field_label = ""
    /\ profile_data = DefaultProfile
    /\ matched_key = NoKey
    /\ config_store = DefaultProfile
    /\ loaded_profile = DefaultProfile
    /\ store_write = "none"

\* cli.main has not been entered
MainIdle ==
    /\ m_pc = "start"
    /\ command = "none"
    /\ login_calls = 0
    /\ login_attempts = 0
    /\ login_success = "none"

\* the Browser class after import: no object yet
BrowserIdle ==
    /\ b_instance = None
    /\ b_initialized = FALSE
    /\ b_driver = None
    /\ b_wait = None
    /\ b_objects = 0
    /\ b_drivers = 0
    /\ b_returned = <<>>
    /\ b_started = 0
    /\ b_calls = 0
    /\ b_cleanups = 0
    /\ b_quits = 0

\* helpers after import: _sleep_call_count = 0
SleepIdle ==
    /\ sleep_call_count = 0
    /\ reduction_factor = 0
    /\ sleep_range = <<0, 0>>

\* no application form is open
FormIdle ==
    /\ fa_pc = "idle"
    /\ form_step = 0
    /\ step_fills = <<>>
    /\ controls_present = {}
    /\ clicked = <<>>
    /\ nav_outcome = "none"

\* no form step with checkboxes is being handled
CheckboxIdle ==
    /\ cb_values = <<>>
    /\ cb_selected = <<>>
    /\ cb_idx = 0
    /\ cb_pass = 0
    /\ cb_clicks = 0

\* no thread is inside adaptive_sleep and the lock is free
ThreadsIdle ==
    /\ th_pc = <<>>
    /\ th_tmp = <<>>
    /\ th_count = <<>>
    /\ sleep_lock = None

ExtraIdle == FormIdle /\ CheckboxIdle /\ ThreadsIdle

ToolsIdle == MainIdle /\ BrowserIdle /\ SleepIdle /\ ExtraIdle

Init == CampaignInit /\ RetryIdle /\ ResolverIdle /\ ToolsIdle

(* ================= connection campaign ================= *)

\* the main loop is left (break, or an exception caught at lines 425-428): the
\* frames of the loop are gone and the finally block calls process_opened_tabs
ExitToFinally ==
    /\ pc' = "drain"
    /\ drain_caller' = "final"
    /\ nbuttons' = 0
    /\ idx' = 0
    /\ tabs_to_process' = <<>>
    /\ initial_count' = 0
    /\ last_dispatch' = "none"
    /\ drain_successes' = 0
    /\ tab_attempts' = 0
    /\ discovered' = FALSE

\* run_connection_campaign, lines 386-398: arguments and main window
RunConnectionCampaign ==
    /\ pc = "idle"
    /\ \E mt \in 0..MaxTabsArg, mc \in 0..MaxLimit :
          /\ max_tabs' = (IF mt = 0 THEN MAX_TABS ELSE mt)
          /\ max_connections' = mc
    /\ kind' = "connection"
    /\ main_window' = focus
    /\ pc' = "navigate"
    /\ UNCHANGED <<libVars, next_page, sessVars, stats, connection_count, connLocals, jobVars,
                   histVars>>
    /\ UNCHANGED connHist

\* run_connection_campaign, lines 401-403: driver.get(search_url), outside the try
Navigate ==
    /\ pc = "navigate"
    /\ \E o \in {"ok", "raise"} :
          IF o = "ok"
          THEN /\ page' = 1
               /\ pc' = "find1"
          ELSE /\ page' = page
               /\ pc' = "raised"
    /\ UNCHANGED <<libVars, next_page, kind, handles, focus, stats, connVars, jobVars, histVars>>

\* find_and_process_buttons, line 358: first discovery on the page
\* (an exception inside find_connection_buttons gives None, falsy like [])
FindButtonsFirst ==
    /\ pc = "find1"
    /\ \E n \in 0..targets_left :
          /\ nbuttons' = n
          /\ targets_left' = targets_left - n
          /\ idx' = (IF n = 0 THEN 0 ELSE 1)
          /\ pc' = (IF n = 0 THEN "find2" ELSE "buttons")
    /\ discovered' = TRUE
    /\ work_after_interrupt' = (work_after_interrupt \/ interrupted)
    /\ untouched' = untouched
    /\ UNCHANGED <<libVars, next_page, kind, sessVars, stats, connCfg, connection_count,
                   tabs_to_process, drain_caller, initial_count, jobVars,
                   interrupted, final_drain_ran, faults>>
    /\ UNCHANGED connHist

\* find_and_process_buttons, lines 360-366: the retried discovery
FindButtonsRetry ==
    /\ pc = "find2"
    /\ \E n \in 0..targets_left :
          /\ nbuttons' = n
          /\ targets_left' = targets_left - n
          /\ idx' = (IF n = 0 THEN 0 ELSE 1)
          /\ pc' = (IF n = 0 THEN "fp_next" ELSE "buttons")
    /\ discovered' = TRUE
    /\ work_after_interrupt' = (work_after_interrupt \/ interrupted)
    /\ untouched' = untouched
    /\ UNCHANGED <<libVars, next_page, kind, sessVars, stats, connCfg, connection_count,
                   tabs_to_process, drain_caller, initial_count, jobVars,
                   interrupted, final_drain_ran, faults>>
    /\ UNCHANGED connHist

\* connections.py go_to_next_page, lines 307-347, called at line 366 or 421: the
\* value the decorated method returns, before the caller tests it
ConnCallGoToNextPage ==
    /\ pc \in {"fp_next", "next"}
    /\ next_page = NoCall
    /\ \E o \in NextPageOutcomes(page) : next_page' = <<o, NextPageCalls(o)>>
    /\ UNCHANGED <<libVars, kind, pc, sessVars, stats, connVars, jobVars, histVars>>

\* find_and_process_buttons, line 366: return self.go_to_next_page()
\* True goes on in the main loop at line 414, False breaks the loop
GoToNextPageNoTargets ==
    /\ pc = "fp_next"
    /\ next_page # NoCall
    /\ \E o \in {next_page[1]} :
          /\ next_page' = NoCall
          /\ IF o = "advanced"
             THEN /\ page' = page + 1
                  /\ discovered' = FALSE
                  /\ pc' = "tabcheck"
                  /\ UNCHANGED <<connLocals, connHist>>
             ELSE /\ page' = page
                  /\ ExitToFinally
    /\ work_after_interrupt' = (work_after_interrupt \/ interrupted)
    /\ UNCHANGED <<libVars, kind, handles, focus, stats, connCfg, connection_count,
                   jobVars, interrupted, final_drain_ran, faults, targets_left,
                   untouched>>

\* process_connection_buttons, line 158: the for loop is exhausted, return True
ButtonsDone ==
    /\ pc = "buttons"
    /\ idx > nbuttons
    /\ pc' = "tabcheck"
    /\ nbuttons' = 0
    /\ idx' = 0
    /\ last_dispatch' = "none"
    /\ UNCHANGED <<drain_successes, tab_attempts>>
    /\ UNCHANGED <<libVars, next_page, kind, sessVars, stats, connCfg, connection_count,
                   tabs_to_process, drain_caller, initial_count, jobVars,
                   histVars>>

\* process_connection_buttons, lines 138-140: quota reached, return False;
\* run_connection_campaign, lines 409-411: break
QuotaStop ==
    /\ pc = "buttons"
    /\ idx <= nbuttons
    /\ QuotaReached(max_connections, connection_count)
    /\ untouched' = nbuttons - idx + 1
    /\ ExitToFinally
    /\ UNCHANGED <<libVars, next_page, kind, sessVars, stats, connCfg, connection_count, jobVars,
                   interrupted, work_after_interrupt, final_drain_ran, faults, targets_left>>

\* process_connection_buttons, lines 142-156, a button whose text is "Connect"
\* (or whose text cannot be read: stale element)
DispatchConnect ==
    /\ pc = "buttons"
    /\ idx <= nbuttons
    /\ ~QuotaReached(max_connections, connection_count)
    /\ \E o \in InlineConnectOutcomes :
          /\ connection_count' = connection_count + InlineConnectCount(o)
          /\ last_dispatch' = o
    /\ idx' = idx + 1
    /\ UNCHANGED <<drain_successes, tab_attempts>>
    /\ work_after_interrupt' = (work_after_interrupt \/ interrupted)
    /\ UNCHANGED <<libVars, next_page, kind, pc, sessVars, stats, connCfg, nbuttons, tabs_to_process,
                   drain_caller, initial_count, jobVars, discovered, interrupted,
                   final_drain_ran, faults, targets_left,
                   untouched>>

\* process_connection_buttons line 144 with _open_profile_in_new_tab, lines
\* 160-193: a button whose text is "Follow"
OpenProfileInNewTab ==
    /\ pc = "buttons"
    /\ idx <= nbuttons
    /\ ~QuotaReached(max_connections, connection_count)
    /\ \E o \in {"opened", "link_failed"} :
          LET current_tab == focus
              new_tab == NewHandle(handles)
              \* lines 173-186: link found, current handle read, window.open
              can_open == o = "opened" /\ current_tab # NoWindow
              target == OpenProfileFocus(current_tab, new_tab)
          IN /\ last_dispatch' = o
             /\ IF can_open
                THEN /\ handles' = handles \cup {new_tab}
                     \* line 187: switch_to.window
                     /\ \E s \in SwitchOutcomes(target, handles', main_window) :
                           focus' = SwitchFocus(target, s, focus)
                ELSE /\ handles' = handles
                     /\ focus' = focus
    /\ idx' = idx + 1
    /\ UNCHANGED <<drain_successes, tab_attempts>>
    /\ work_after_interrupt' = (work_after_interrupt \/ interrupted)
    /\ UNCHANGED <<libVars, next_page, kind, pc, page, stats, connCfg, connection_count, nbuttons,
                   tabs_to_process, drain_caller, initial_count, jobVars,
                   discovered, interrupted, final_drain_ran, faults, targets_left,
                   untouched>>

\* run_connection_campaign, lines 414-417: tab count against max_tabs
\* (driver.window_handles raising is caught at line 427)
TabCheck ==
    /\ pc = "tabcheck"
    /\ \E o \in {"ok", "raise"} :
          IF o = "raise"
          THEN ExitToFinally
          ELSE LET tab_count == Cardinality(handles) - 1
               IN /\ IF tab_count >= max_tabs
                     THEN /\ pc' = "drain"
                          /\ drain_caller' = "loop"
                     ELSE /\ pc' = "next"
                          /\ drain_caller' = drain_caller
                  /\ UNCHANGED <<nbuttons, idx, tabs_to_process, initial_count,
                                 connHist, discovered>>
    /\ UNCHANGED <<libVars, next_page, kind, sessVars, stats, connCfg, connection_count, jobVars,
                   interrupted, work_after_interrupt, final_drain_ran, faults, targets_left,
                   untouched>>

\* process_opened_tabs, lines 251-263: snapshot of the tabs to process
\* (driver.window_handles raising leads to the handler at lines 296-305)
ProcessOpenedTabsBegin ==
    /\ pc = "drain"
    /\ initial_count' = connection_count
    /\ main_window' = (IF main_window = None THEN focus ELSE main_window)
    /\ \E o \in {"ok", "raise"} :
          IF o = "ok"
          THEN /\ tabs_to_process' = SetToSeq(handles \ {main_window'})
               /\ pc' = "drain_tab"
          ELSE /\ tabs_to_process' = <<>>
               /\ pc' = "drain_restore"
    /\ UNCHANGED <<libVars, next_page, kind, sessVars, stats, max_connections, max_tabs,
                   connection_count, nbuttons, idx, drain_caller, jobVars,
                   histVars>>
    /\ UNCHANGED connHist

\* process_opened_tabs, lines 266-285: one iteration of the loop over the tabs:
\* switch (269), connect_in_profile_tab (275), close (278), and on an exception
\* the close of the handler (283)
DrainTab ==
    /\ pc = "drain_tab"
    /\ tabs_to_process # <<>>
    /\ LET tab == Head(tabs_to_process)
       IN \E sw \in SwitchOutcomes(tab, handles, main_window),
             o1 \in ConnectOutcomes, o2 \in ConnectOutcomes,
             c1 \in {"ok", "raise"}, c2 \in {"ok", "raise"} :
             LET cn == ConnectInProfileTabResult(o1, o2)
                 f1 == SwitchFocus(tab, sw, focus)
                 body_ok == sw = "ok" /\ cn # "raise"
                 h2 == IF body_ok THEN CloseHandles(f1, handles, c1) ELSE handles
                 f2 == IF body_ok THEN CloseFocus(f1, handles, c1) ELSE f1
                 handler == ~body_ok \/ CloseRaises(f1, handles, c1)
                 h3 == IF handler THEN CloseHandles(f2, h2, c2) ELSE h2
                 f3 == IF handler THEN CloseFocus(f2, h2, c2) ELSE f2
                 cost == (IF sw = "raise" /\ tab \in handles THEN 1 ELSE 0)
                         + (IF c1 = "raise" THEN 1 ELSE 0)
                         + (IF c2 = "raise" THEN 1 ELSE 0)
             IN /\ faults + cost <= MaxFaults
                /\ faults' = faults + cost
                /\ (sw = "raise" => o1 = "not_sent")
                /\ (~ConnectSecondAttempt(o1) => o2 = "not_sent")
                /\ (~body_ok => c1 = "ok")
                /\ (~handler => c2 = "ok")
                /\ connection_count' = (IF sw = "ok"
                                        THEN connection_count
                                             + ConnectInProfileTabCount(o1, o2)
                                        ELSE connection_count)
                /\ drain_successes' = (IF sw = "ok" /\ cn = "sent"
                                       THEN drain_successes + 1
                                       ELSE drain_successes)
                /\ tab_attempts' = (IF sw = "ok" THEN ConnectAttemptsCaught(o1, o2)
                                    ELSE 0)
                /\ handles' = h3
                /\ focus' = f3
    /\ tabs_to_process' = Tail(tabs_to_process)
    /\ last_dispatch' = last_dispatch
    /\ UNCHANGED <<libVars, next_page, kind, pc, page, stats, connCfg, nbuttons, idx, drain_caller,
                   initial_count, jobVars, discovered, interrupted,
                   work_after_interrupt, final_drain_ran, targets_left,
                   untouched>>

\* process_opened_tabs, lines 287-305: back to the main window, return
\* connection_count - initial_count (a failing switch at line 289 is tried again
\* at line 301 and then ignored)
DrainRestore ==
    /\ pc \in {"drain_tab", "drain_restore"}
    /\ tabs_to_process = <<>>
    /\ \E o \in SwitchOutcomes(main_window, handles, main_window) :
          focus' = SwitchFocus(main_window, o, focus)
    /\ pc' = (IF drain_caller = "loop" THEN "next" ELSE "final_restore")
    /\ final_drain_ran' = (final_drain_ran \/ drain_caller = "final")
    /\ initial_count' = 0
    /\ drain_successes' = 0
    /\ tab_attempts' = 0
    /\ last_dispatch' = last_dispatch
    /\ UNCHANGED <<libVars, next_page, kind, page, handles, stats, connCfg, connection_count,
                   nbuttons, idx, tabs_to_process, drain_caller, jobVars,
                   discovered, interrupted, work_after_interrupt, faults, targets_left,
                   untouched>>

\* run_connection_campaign, lines 421-423: advance in the main loop
GoToNextPage ==
    /\ pc = "next"
    /\ next_page # NoCall
    /\ \E o \in {next_page[1]} :
          /\ next_page' = NoCall
          /\ IF o = "advanced"
             THEN /\ page' = page + 1
                  /\ discovered' = FALSE
                  /\ pc' = "find1"
                  /\ UNCHANGED <<connLocals, connHist>>
             ELSE /\ page' = page
                  /\ ExitToFinally
    /\ work_after_interrupt' = (work_after_interrupt \/ interrupted)
    /\ UNCHANGED <<libVars, kind, handles, focus, stats, connCfg, connection_count,
                   jobVars, interrupted, final_drain_ran, faults, targets_left,
                   untouched>>

\* run_connection_campaign, lines 435-446: last switch and the returned record
FinalRestore ==
    /\ pc = "final_restore"
    /\ IF main_window # None
       THEN \E o \in SwitchOutcomes(main_window, handles, main_window) :
               focus' = SwitchFocus(main_window, o, focus)
       ELSE focus' = focus
    /\ stats' = <<connection_count, max_connections>>
    /\ pc' = "returned"
    /\ UNCHANGED <<libVars, next_page, kind, page, handles, connVars, jobVars, histVars>>

\* positions inside the try block of run_connection_campaign
ConnTryRegion == {"find1", "find2", "fp_next", "buttons", "tabcheck", "next"}
ConnDrainRegion == {"drain", "drain_tab", "drain_restore"}

\* KeyboardInterrupt during a connection campaign: inside the try it is caught at
\* line 425 and the finally block follows; before the try (lines 398-403) and
\* inside the finally block (its drain, line 432, and its switch, line 437) it
\* leaves run_connection_campaign
ConnKeyboardInterrupt ==
    /\ kind = "connection"
    /\ ~interrupted
    /\ \/ /\ pc \in ConnTryRegion \/ (pc \in ConnDrainRegion /\ drain_caller = "loop")
          /\ ExitToFinally
       \/ /\ \/ pc = "navigate"
             \/ pc = "final_restore"
             \/ (pc \in ConnDrainRegion /\ drain_caller = "final")
          /\ pc' = "raised"
          /\ UNCHANGED <<connLocals, connHist, discovered>>
    /\ interrupted' = TRUE
    /\ next_page' = NoCall
    /\ UNCHANGED <<libVars, kind, sessVars, stats, connCfg, connection_count, jobVars,
                   work_after_interrupt, final_drain_ran, faults, targets_left,
                   untouched>>

\* KeyboardInterrupt inside one iteration of the drain loop: after the switch
\* into the tab (line 269) and before its close (line 278)
ConnInterruptInTab ==
    /\ kind = "connection"
    /\ ~interrupted
    /\ pc = "drain_tab"
    /\ tabs_to_process # <<>>
    /\ Head(tabs_to_process) \in handles
    /\ focus' = Head(tabs_to_process)
    /\ IF drain_caller = "loop"
       THEN ExitToFinally
       ELSE /\ pc' = "raised"
            /\ UNCHANGED <<connLocals, connHist, discovered>>
    /\ interrupted' = TRUE
    /\ UNCHANGED <<libVars, next_page, kind, page, handles, stats, connCfg, connection_count, jobVars,
                   work_after_interrupt, final_drain_ran, faults, targets_left,
                   untouched>>

ConnNext ==
    \/ RunConnectionCampaign
    \/ Navigate
    \/ FindButtonsFirst
    \/ FindButtonsRetry
    \/ ConnCallGoToNextPage
    \/ GoToNextPageNoTargets
    \/ ButtonsDone
    \/ QuotaStop
    \/ DispatchConnect
    \/ OpenProfileInNewTab
    \/ TabCheck
    \/ ProcessOpenedTabsBegin
    \/ DrainTab
    \/ DrainRestore
    \/ GoToNextPage
    \/ FinalRestore
    \/ ConnKeyboardInterrupt
    \/ ConnInterruptInTab

(* ================= job campaign ================= *)

\* calls of LinkedInJobDataManager.process_job_search_page (job_data_manager.py
\* 29-46) made by one run of the body of apply_to_job: the class is constructed
\* and called nowhere in features/jobs.py
SinkRecordCalls(o) == 0

\* calls of LinkedInJobDataManager.update_job_status (job_data_manager.py 48-56)
\* made by one run of the body of apply_to_job, likewise none
SinkStatusCalls(o) == 0

\* lines 118-122: viewed_jobs_count += 1 once the click on the card returned
ViewedIncrement(o) == IF o = "card_click_failed" THEN 0 ELSE 1

\* a body that counts the application before it is known to have succeeded
ApplicationIncrementAlways(o) == 1

\* lines 147-148: application_count += 1 only when the success message was found
ApplicationIncrement(o) == IF o = "success" THEN 1 ELSE 0

\* the outcomes of one run of the body of apply_to_job, lines 117-161
ApplyOutcomes ==
    {"card_click_failed", "apply_timeout", "submit_timeout", "verify_failed",
     "success"}

\* run_job_campaign, lines 727-750: arguments and the choice of starting point
RunJobCampaign ==
    /\ pc = "idle"
    /\ kind' = "job"
    /\ \E start \in {"url", "search", "none"}, ma \in 0..MaxLimit :
          /\ max_applications' = ma
          /\ IF start = "none"
             THEN /\ stats' = <<0, 0, ma>>
                  /\ pc' = "returned"
             ELSE /\ stats' = stats
                  /\ pc' = (IF start = "url" THEN "jnav_url" ELSE "jnav_search")
    /\ UNCHANGED <<libVars, next_page, page, handles, focus, connVars, application_count,
                   viewed_jobs_count, cards_left, attempts, submit_clicks,
                   count_at_dispatch, last_outcome, record_calls, status_calls,
                   histVars>>

\* run_job_campaign, lines 738-740 and 752: driver.get(search_url), outside the try
JobNavigateUrl ==
    /\ pc = "jnav_url"
    /\ \E o \in {"ok", "raise"} :
          IF o = "ok"
          THEN /\ page' = 1
               /\ pc' = "jloop"
          ELSE /\ page' = page
               /\ pc' = "raised"
    /\ UNCHANGED <<libVars, next_page, kind, handles, focus, stats, connVars, jobVars, histVars>>

\* run_job_campaign, lines 741-743: search_jobs is a safe_operation whose result
\* (True, False or None) is not looked at
JobSearch ==
    /\ pc = "jnav_search"
    /\ page' = 1
    /\ pc' = "jloop"
    /\ UNCHANGED <<libVars, next_page, kind, handles, focus, stats, connVars, jobVars, histVars>>

\* run_job_campaign, lines 758-760: quota test at the top of the while loop
JobQuotaBreak ==
    /\ pc = "jloop"
    /\ JobQuotaReached(max_applications, application_count)
    /\ pc' = "jdone"
    /\ UNCHANGED <<libVars, next_page, kind, page, handles, focus, stats, connVars, jobVars, histVars>>

\* run_job_campaign, lines 763-765: find_job_listings on the current page
FindJobListings ==
    /\ pc = "jloop"
    /\ ~JobQuotaReached(max_applications, application_count)
    /\ \E n \in 0..MaxCards :
          /\ cards_left' = n
          /\ pc' = (IF n = 0 THEN "jnext_empty" ELSE "jcards")
    /\ UNCHANGED <<libVars, next_page, kind, page, handles, focus, stats, connVars, max_applications,
                   application_count, viewed_jobs_count, attempts, submit_clicks,
                   count_at_dispatch, last_outcome, record_calls, status_calls,
                   histVars>>

\* jobs.py go_to_next_page, lines 689-711, called at line 767 or 786: the value
\* the decorated method returns, before the caller tests it
JobCallGoToNextPage ==
    /\ pc \in {"jnext_empty", "jnext"}
    /\ next_page = NoCall
    /\ \E o \in NextPageOutcomes(page) : next_page' = <<o, NextPageCalls(o)>>
    /\ UNCHANGED <<libVars, kind, pc, sessVars, stats, connVars, jobVars, histVars>>

\* run_job_campaign, lines 767-770: no listings, advance and continue the loop
JobNextPageEmpty ==
    /\ pc = "jnext_empty"
    /\ next_page # NoCall
    /\ \E o \in {next_page[1]} :
          /\ next_page' = NoCall
          /\ IF o = "advanced"
             THEN /\ page' = page + 1
                  /\ pc' = "jloop"
             ELSE /\ page' = page
                  /\ pc' = "jdone"
    /\ UNCHANGED <<libVars, kind, handles, focus, stats, connVars, jobVars, histVars>>

\* run_job_campaign, lines 775-777: quota reached inside the for loop, break
JobCardQuotaBreak ==
    /\ pc = "jcards"
    /\ cards_left > 0
    /\ JobQuotaReached(max_applications, application_count)
    /\ cards_left' = 0
    /\ pc' = "jnext"
    /\ UNCHANGED <<libVars, next_page, kind, page, handles, focus, stats, connVars, max_applications,
                   application_count, viewed_jobs_count, attempts, submit_clicks,
                   count_at_dispatch, last_outcome, record_calls, status_calls,
                   histVars>>

\* run_job_campaign, line 773: the for loop over the job cards is exhausted
JobCardsDone ==
    /\ pc = "jcards"
    /\ cards_left = 0
    /\ pc' = "jnext"
    /\ UNCHANGED <<libVars, next_page, kind, page, handles, focus, stats, connVars, jobVars, histVars>>

\* run_job_campaign, lines 779-780: apply_to_job(job_card) enters retry.wrapper
DispatchApply ==
    /\ pc = "jcards"
    /\ cards_left > 0
    /\ ~JobQuotaReached(max_applications, application_count)
    /\ cards_left' = cards_left - 1
    /\ attempts' = 0
    /\ submit_clicks' = 0
    /\ count_at_dispatch' = application_count
    /\ last_outcome' = "none"
    /\ pc' = "japply"
    /\ UNCHANGED <<libVars, next_page, kind, page, handles, focus, stats, connVars, max_applications,
                   application_count, viewed_jobs_count, record_calls, status_calls,
                   histVars>>

\* one pass of the while loop of retry.wrapper (decorators.py 26-35) around the
\* body of apply_to_job (jobs.py 117-161)
ApplyToJobAttempt ==
    /\ pc = "japply"
    /\ \E o \in ApplyOutcomes :
          /\ viewed_jobs_count' = viewed_jobs_count + ViewedIncrement(o)
          /\ submit_clicks' = (IF o \in {"verify_failed", "success"}
                               THEN submit_clicks + 1 ELSE submit_clicks)
          /\ application_count' = application_count + ApplicationIncrement(o)
          /\ last_outcome' = o
          \* lines 117-161 call neither process_job_search_page nor
          \* update_job_status, and neither does run_job_campaign (754-801)
          /\ record_calls' = record_calls + SinkRecordCalls(o)
          /\ status_calls' = status_calls + SinkStatusCalls(o)
          /\ IF ApplyToJobRaises(o)
             THEN /\ attempts' = attempts + 1
                  /\ pc' = (IF attempts + 1 >= RetryMaxAttempts THEN "jcards"
                            ELSE "japply")
             ELSE /\ attempts' = attempts
                  /\ pc' = "jcards"
    /\ UNCHANGED <<libVars, next_page, kind, page, handles, focus, stats, connVars, max_applications,
                   cards_left, count_at_dispatch, histVars>>

\* run_job_campaign, lines 786-788: advance after the page's cards
JobGoToNextPage ==
    /\ pc = "jnext"
    /\ next_page # NoCall
    /\ \E o \in {next_page[1]} :
          /\ next_page' = NoCall
          /\ IF o = "advanced"
             THEN /\ page' = page + 1
                  /\ pc' = "jloop"
             ELSE /\ page' = page
                  /\ pc' = "jdone"
    /\ UNCHANGED <<libVars, kind, handles, focus, stats, connVars, jobVars, histVars>>

\* run_job_campaign, lines 794-801: the returned record
JobReturn ==
    /\ pc = "jdone"
    /\ stats' = <<application_count, viewed_jobs_count, max_applications>>
    /\ pc' = "returned"
    /\ UNCHANGED <<libVars, next_page, kind, page, handles, focus, connVars, jobVars, histVars>>

\* positions inside the try block of run_job_campaign
JobTryRegion == {"jloop", "jnext_empty", "jcards", "japply", "jnext"}

\* KeyboardInterrupt during a job campaign: caught at line 790 inside the try,
\* leaves run_job_campaign before it (lines 738-752)
JobKeyboardInterrupt ==
    /\ kind = "job"
    /\ ~interrupted
    /\ \/ /\ pc \in JobTryRegion
          /\ pc' = "jdone"
       \/ /\ pc \in {"jnav_url", "jnav_search"}
          /\ pc' = "raised"
    /\ interrupted' = TRUE
    /\ next_page' = NoCall
    /\ UNCHANGED <<libVars, kind, page, handles, focus, stats, connVars, jobVars,
                   discovered, work_after_interrupt, final_drain_ran, faults, targets_left,
                   untouched>>

JobNext ==
    \/ RunJobCampaign
    \/ JobNavigateUrl
    \/ JobSearch
    \/ JobQuotaBreak
    \/ FindJobListings
    \/ JobCallGoToNextPage
    \/ JobNextPageEmpty
    \/ JobCardQuotaBreak
    \/ JobCardsDone
    \/ DispatchApply
    \/ ApplyToJobAttempt
    \/ JobGoToNextPage
    \/ JobReturn
    \/ JobKeyboardInterrupt

(* ================= form fields ================= *)

\* a form step is being filled against some profile; config.toml holds the
\* same profile section
InitResolve ==
    /\ CampaignInit
    /\ RetryIdle
    /\ ToolsIdle
    /\ f_pc = "idle"
    /\ f_category = "none"
    /\ field_label = ""
    /\ \E S \in FilledSets : profile_data = ProfileWith(S)
    /\ matched_key = NoKey
    /\ config_store = profile_data
    /\ loaded_profile = profile_data
    /\ store_write = "none"

\* _fill_form_inputs lines 265-288 (and the same lines of the other
\* _fill_form_* methods): read the label, lower it, find matched_key
ResolveField ==
    /\ f_pc = "idle"
    /\ \E cat \in FieldCategories, raw \in Labels :
          /\ f_category' = cat
          /\ field_label' = LoweredLabel[raw]
          /\ matched_key' = ResolveKey(cat, field_label', profile_data)
    /\ f_pc' = "resolved"
    /\ UNCHANGED <<profile_data, config_store, loaded_profile, store_write>>
    /\ UNCHANGED <<campaignVars, retryVars, toolVars>>

\* lines 291-294: a key with a value was found, the field is filled
FillField ==
    /\ f_pc = "resolved"
    /\ matched_key # NoKey /\ Truthy(Get(profile_data, matched_key))
    /\ f_pc' = "filled"
    /\ UNCHANGED <<f_category, field_label, profile_data, matched_key, config_store,
                   loaded_profile, store_write>>
    /\ UNCHANGED <<campaignVars, retryVars, toolVars>>

\* a guard that never finds the key
FieldKnownNever(label, pd, field_key) == Len(label) < 3

\* lines 645-658: the two early returns of _add_missing_field_to_config
FieldKnown(label, pd, field_key) == Len(label) < 3 \/ HasKey(pd, field_key)

\* an augmentation that stores a value with the key
AddFieldWithValue(pd, field_key) == Put(pd, field_key, "yes")

\* line 664: CONFIG["profile"][field_key] = ""
AddField(pd, field_key) == Put(pd, field_key, "")

\* lines 295-300 with _add_missing_field_to_config, lines 643-687
AddMissingFieldToConfig ==
    /\ f_pc = "resolved"
    /\ ~(matched_key # NoKey /\ Truthy(Get(profile_data, matched_key)))
    /\ \E field_key \in {DerivedKeyOf[LabelOf(field_label)]} :
          IF FieldKnown(field_label, profile_data, field_key)
          THEN UNCHANGED <<profile_data, config_store, store_write>>
          ELSE /\ profile_data' = AddField(profile_data, field_key)
               /\ \E o \in {"written", "no_file", "error"} :
                     /\ store_write' = o
                     /\ config_store' = (IF o = "written"
                                         THEN Put(config_store, field_key, "")
                                         ELSE config_store)
    /\ f_pc' = "augmented"
    /\ UNCHANGED <<f_category, field_label, matched_key, loaded_profile>>
    /\ UNCHANGED <<campaignVars, retryVars, toolVars>>

NextResolve ==
    \/ ResolveField
    \/ FillField
    \/ AddMissingFieldToConfig

SpecResolve == InitResolve /\ [][NextResolve]_vars

(* ---------------- the fields of a form, one after another ---------------- *)
\* the profile keys some label of the page can resolve to: with only that key
\* filled, some category resolves some label to it. The value of any other
\* key is never chosen for a field of the page.
RelevantKeys ==
    {i \in 1..Len(ProfileKeys) :
        \E raw \in Labels, cat \in FieldCategories :
            ResolveKey(cat, LoweredLabel[raw], ProfileWith({i})) = ProfileKeys[i]}
ObservedFilledSets ==
    {S \in SUBSET RelevantKeys : Cardinality(S) <= MaxObservedFilled}

\* CONFIG as load_config() built it from config.toml, no field handled yet
InitObserve ==
    /\ CampaignInit
    /\ RetryIdle
    /\ ToolsIdle
    /\ f_pc = "idle"
    /\ f_category = "none"
    /\ field_label = ""
    /\ \E S \in ObservedFilledSets : profile_data = ProfileWith(S)
    /\ matched_key = NoKey
    /\ config_store = profile_data
    /\ loaded_profile = profile_data
    /\ store_write = "none"

\* the for loop of a _fill_form_* method goes on to the next element: the
\* locals of the iteration are gone
NextField ==
    /\ f_pc \in {"filled", "augmented"}
    /\ f_pc' = "idle"
    /\ f_category' = "none"
    /\ field_label' = ""
    /\ matched_key' = NoKey
    /\ store_write' = "none"
    /\ UNCHANGED <<profile_data, config_store, loaded_profile>>
    /\ UNCHANGED <<campaignVars, retryVars, toolVars>>

\* config.toml is a file of the user: between two fields they give a value to a
\* key the running program has not added yet (once, while the file still holds
\* the keys it was loaded with)
ConfigFileEdited ==
    /\ f_pc = "idle"
    /\ Len(config_store) = Len(loaded_profile)
    /\ \E raw \in Labels :
          /\ ~HasKey(config_store, DerivedKeyOf[raw])
          /\ ~HasKey(profile_data, DerivedKeyOf[raw])
          /\ config_store' = Put(config_store, DerivedKeyOf[raw], "yes")
    /\ UNCHANGED <<f_pc, f_category, field_label, profile_data, matched_key,
                   loaded_profile, store_write>>
    /\ UNCHANGED <<campaignVars, retryVars, toolVars>>

NextObserve ==
    \/ ResolveField
    \/ FillField
    \/ AddMissingFieldToConfig
    \/ NextField

SpecObserve == InitObserve /\ [][NextObserve]_vars

\* the same with the user editing config.toml while the program runs
NextObserveEdited ==
    \/ ResolveField
    \/ FillField
    \/ AddMissingFieldToConfig
    \/ NextField
    \/ ConfigFileEdited

SpecObserveEdited == InitObserve /\ [][NextObserveEdited]_vars

(* ================= retry decorator ================= *)

\* exceptions func can raise (subclasses of Exception) and values it can return
FuncExceptions == {"TimeoutException", "StaleElementReferenceException"}
FuncValues == {"True", "False"}
FuncOutcomes == FuncExceptions \cup FuncValues

\* what func does on its i-th invocation; past the plan it keeps its last behaviour
FuncOutcome(plan, i) == IF i \in DOMAIN plan THEN plan[i] ELSE plan[Len(plan)]

\* the loop test of retry.wrapper
RetryLoopContinues(att, max) == att < max

\* a test that gives up one attempt early
RetryExhaustedEarly(att, max) == att + 1 >= max

\* the test of the except clause that ends the retries
RetryExhausted(att, max) == att >= max

\* a clause that raises the first exception caught
ReraisedFirst(caught) == caught[1]

\* the bare raise of the except clause: the exception being handled
Reraised(caught) == caught[Len(caught)]

\* a decorated function built with max_attempts = N is called; func will behave
\* as the plan says
InitRetry ==
    /\ CampaignInit
    /\ ResolverIdle
    /\ ToolsIdle
    /\ r_pc = "idle"
    /\ r_max_attempts \in 0..MaxRetryAttempts
    /\ r_plan \in [1..MaxRetryAttempts -> FuncOutcomes]
    /\ r_attempts = 0
    /\ r_calls = 0
    /\ r_slept = {}
    /\ r_caught = <<>>
    /\ r_result = None
    /\ r_error = "none"

\* wrapper(*args, **kwargs) is entered: attempts = 0
RetryWrapperEnter ==
    /\ r_pc = "idle"
    /\ r_pc' = "loop"
    /\ r_attempts' = 0
    /\ UNCHANGED <<r_max_attempts, r_plan, r_calls, r_slept, r_caught, r_result,
                   r_error>>
    /\ UNCHANGED <<campaignVars, resolveVars, toolVars>>

\* one pass of the while loop: func is invoked; its value is returned, or its
\* exception is caught, counted, and either re-raised or followed by the wait
RetryAttempt ==
    /\ r_pc = "loop"
    /\ RetryLoopContinues(r_attempts, r_max_attempts)
    /\ r_calls' = r_calls + 1
    /\ LET o == FuncOutcome(r_plan, r_calls + 1)
           att == r_attempts + 1
       IN IF o \in FuncValues
          THEN /\ r_pc' = "returned"
               /\ r_result' = o
               /\ UNCHANGED <<r_attempts, r_caught, r_error>>
          ELSE /\ r_attempts' = att
               /\ r_caught' = Append(r_caught, o)
               /\ r_result' = r_result
               /\ IF RetryExhausted(att, r_max_attempts)
                  THEN /\ r_pc' = "raised"
                       /\ r_error' = Reraised(Append(r_caught, o))
                  ELSE /\ r_pc' = "sleep"
                       /\ r_error' = r_error
    /\ UNCHANGED <<r_max_attempts, r_plan, r_slept>>
    /\ UNCHANGED <<campaignVars, resolveVars, toolVars>>

\* time.sleep(delay_seconds) after a failed attempt
RetrySleep ==
    /\ r_pc = "sleep"
    /\ r_slept' = r_slept \cup {r_attempts}
    /\ r_pc' = "loop"
    /\ UNCHANGED <<r_max_attempts, r_plan, r_attempts, r_calls, r_caught,
                   r_result, r_error>>
    /\ UNCHANGED <<campaignVars, resolveVars, toolVars>>

\* the while test fails: wrapper falls off its end and returns None
RetryFallThrough ==
    /\ r_pc = "loop"
    /\ ~RetryLoopContinues(r_attempts, r_max_attempts)
    /\ r_pc' = "returned"
    /\ r_result' = None
    /\ UNCHANGED <<r_max_attempts, r_plan, r_attempts, r_calls, r_slept, r_caught,
                   r_error>>
    /\ UNCHANGED <<campaignVars, resolveVars, toolVars>>

NextRetry ==
    \/ RetryWrapperEnter
    \/ RetryAttempt
    \/ RetrySleep
    \/ RetryFallThrough

SpecRetry == InitRetry /\ [][NextRetry]_vars

Next == ConnNext \/ JobNext

Spec == Init /\ [][Next]_vars

(* ================= cli.main ================= *)

\* @retry(max_attempts=3, delay_seconds=2) on LinkedInAuth.login
LoginMaxAttempts == 3

\* the commands args_dict can hold
Commands == {"connections", "jobs", "other"}

\* the body of login: a value from one of its return statements, or an
\* exception that no try block of the body covers (load_cookies, line 86)
LoginOutcomes == {"True", "False", "raise"}

\* a test of the login result that lets every result pass
LoginFailedNever(result) == FALSE

\* cli.main line 178: if not login_success
LoginFailed(result) == result # "True"

\* main is entered with some command
InitMain ==
    /\ CampaignInit
    /\ RetryIdle
    /\ ResolverIdle
    /\ m_pc = "start"
    /\ command \in Commands
    /\ login_calls = 0
    /\ login_attempts = 0
    /\ login_success = "none"
    /\ BrowserIdle
    /\ SleepIdle
    /\ ExtraIdle

\* lines 161-170: Browser(headless=headless), atexit.register, LinkedInAuth(browser);
\* an exception of the constructor goes to except Exception, line 242
MainCreateBrowser ==
    /\ m_pc = "start"
    /\ \E ok \in BOOLEAN : m_pc' = (IF ok THEN "login" ELSE "error")
    /\ UNCHANGED <<command, login_calls, login_attempts, login_success>>
    /\ UNCHANGED <<campaignVars, retryVars, resolveVars, browserVars, sleepVars,
                   extraVars>>

\* lines 173-176: login_success = auth.login(...), the wrapper is entered
MainCallLogin ==
    /\ m_pc = "login"
    /\ m_pc' = "in_login"
    /\ login_calls' = login_calls + 1
    /\ login_attempts' = 0
    /\ UNCHANGED <<command, login_success>>
    /\ UNCHANGED <<campaignVars, retryVars, resolveVars, browserVars, sleepVars,
                   extraVars>>

\* retry.wrapper around login, decorators.py 26-36: one invocation of the body;
\* the attempts counter is a local of the wrapper and is gone when it is left
LoginAttempt ==
    /\ m_pc = "in_login"
    /\ RetryLoopContinues(login_attempts, LoginMaxAttempts)
    /\ \E o \in LoginOutcomes :
          IF o # "raise"
          THEN /\ login_success' = o
               /\ login_attempts' = 0
               /\ m_pc' = "check"
          ELSE IF RetryExhausted(login_attempts + 1, LoginMaxAttempts)
          THEN /\ login_success' = "none"
               /\ login_attempts' = 0
               /\ m_pc' = "error"
          ELSE /\ login_success' = "none"
               /\ login_attempts' = login_attempts + 1
               /\ m_pc' = "in_login"
    /\ UNCHANGED <<command, login_calls>>
    /\ UNCHANGED <<campaignVars, retryVars, resolveVars, browserVars, sleepVars,
                   extraVars>>

\* lines 178-180 and 183, 207, 233-235: sys.exit(1) after a failed login or for
\* a command that is neither connections nor jobs, else the campaign is entered
MainCheckLogin ==
    /\ m_pc = "check"
    /\ m_pc' = (IF LoginFailed(login_success) THEN "exited"
               ELSE IF command \in {"connections", "jobs"} THEN "campaign"
               ELSE "exited")
    /\ UNCHANGED <<command, login_calls, login_attempts, login_success>>
    /\ UNCHANGED <<campaignVars, retryVars, resolveVars, browserVars, sleepVars,
                   extraVars>>

\* lines 197 and 220-222: run_connection_campaign or run_job_campaign runs
MainCampaignStep ==
    /\ m_pc = "campaign"
    /\ \/ command = "connections" /\ ConnNext
       \/ command = "jobs" /\ JobNext

\* lines 199-205, 224-231, 237-238: the statistics are printed; a
\* KeyboardInterrupt that left the campaign is caught at line 240
MainCampaignOver ==
    /\ m_pc = "campaign"
    /\ pc \in {"returned", "raised"}
    /\ m_pc' = (IF pc = "returned" THEN "done" ELSE "interrupted")
    /\ UNCHANGED <<command, login_calls, login_attempts, login_success>>
    /\ UNCHANGED <<campaignVars, retryVars, resolveVars, browserVars, sleepVars,
                   extraVars>>

\* line 240: KeyboardInterrupt before the campaign is entered
MainKeyboardInterrupt ==
    /\ m_pc \in {"start", "login", "in_login", "check"}
    /\ m_pc' = "interrupted"
    /\ UNCHANGED <<command, login_calls, login_attempts, login_success>>
    /\ UNCHANGED <<campaignVars, retryVars, resolveVars, browserVars, sleepVars,
                   extraVars>>

NextMain ==
    \/ MainCreateBrowser
    \/ MainCallLogin
    \/ LoginAttempt
    \/ MainCheckLogin
    \/ MainCampaignStep
    \/ MainCampaignOver
    \/ MainKeyboardInterrupt

SpecMain == InitMain /\ [][NextMain]_vars

(* ================= Browser ================= *)

\* Browser.__new__, line 29: if cls._instance is None
NewCreates(instance) == instance = None

\* a cleanup that does not look at the driver
HasDriverAlways(driver) == TRUE

\* Browser.cleanup, line 252: if self.driver
HasDriver(driver) == driver # None

\* start_browser, lines 41-91: the driver is started and configured; both
\* webdriver constructions of _start_* raise (no driver); or the driver is
\* there and WebDriverWait (no wait) or maximize_window raises
StartOutcomes == {"started", "no_driver", "no_wait", "no_maximize"}

InitBrowser ==
    /\ CampaignInit
    /\ RetryIdle
    /\ ResolverIdle
    /\ MainIdle
    /\ SleepIdle
    /\ BrowserIdle
    /\ ExtraIdle

\* Browser(headless): __new__ lines 28-32, then __init__ lines 34-39 on the
\* object __new__ returned; an exception of start_browser leaves Browser()
\* without a returned object
BrowserConstruct ==
    /\ b_calls < MaxConstructions
    /\ b_calls' = b_calls + 1
    /\ b_objects' = (IF NewCreates(b_instance) THEN b_objects + 1 ELSE b_objects)
    /\ b_instance' = (IF NewCreates(b_instance) THEN b_objects' ELSE b_instance)
    /\ IF ~NewCreates(b_instance) /\ b_initialized
       THEN /\ b_returned' = Append(b_returned, b_instance')
            /\ UNCHANGED <<b_initialized, b_driver, b_wait, b_drivers, b_started>>
       ELSE /\ b_initialized' = TRUE
            /\ \E o \in StartOutcomes :
                  /\ b_drivers' = (IF o = "no_driver" THEN b_drivers ELSE b_drivers + 1)
                  /\ b_started' = (IF o = "no_driver" THEN b_started ELSE b_started + 1)
                  /\ b_driver' = (IF o = "no_driver" THEN None ELSE b_drivers')
                  /\ b_wait' = (IF o \in {"no_driver", "no_wait"} THEN None
                                ELSE b_drivers')
                  /\ b_returned' = (IF o = "started"
                                    THEN Append(b_returned, b_instance')
                                    ELSE b_returned)
    /\ UNCHANGED <<b_cleanups, b_quits>>
    /\ UNCHANGED <<campaignVars, retryVars, resolveVars, mainVars, sleepVars,
                   extraVars>>

\* Browser.cleanup, lines 250-261, on the object Browser() gave; quit returns
\* or raises, the finally block runs in both cases
BrowserCleanup ==
    /\ b_instance # None
    /\ b_cleanups < MaxCleanups
    /\ b_cleanups' = b_cleanups + 1
    /\ IF HasDriver(b_driver)
       THEN /\ \E quit_raises \in BOOLEAN : b_quits' = b_quits + 1
            /\ b_driver' = None
            /\ b_wait' = None
            /\ b_initialized' = FALSE
       ELSE UNCHANGED <<b_quits, b_driver, b_wait, b_initialized>>
    /\ b_returned' = <<>>
    /\ b_started' = 0
    /\ UNCHANGED <<b_instance, b_objects, b_drivers, b_calls>>
    /\ UNCHANGED <<campaignVars, retryVars, resolveVars, mainVars, sleepVars,
                   extraVars>>

NextBrowser == BrowserConstruct \/ BrowserCleanup

SpecBrowser == InitBrowser /\ [][NextBrowser]_vars

(* ================= adaptive_sleep ================= *)

\* get_adjusted_sleep_range, lines 35-36: call_count > 50, (call_count - 50) / 200
\* and the cap 0.7; factors are counted in 1/FactorScale, so 0.7 is 140
SleepThreshold == 50
FactorScale == 200
FactorCap == 140

\* the counter at which (call_count - 50) / 200 is 0.7, and at which it is 1
CapCounter == SleepThreshold + FactorCap
RampEnd == SleepThreshold + FactorScale

\* DEFAULT_WAIT_RANGE and PAGE_LOAD_WAIT_RANGE, in seconds
WaitRanges == {<<1, 3>>, <<3, 6>>}

\* a factor without the cap
ReductionFactorUncapped(call_count) ==
    IF call_count > SleepThreshold THEN call_count - SleepThreshold ELSE 0

\* reduction_factor of get_adjusted_sleep_range, 0 where min_max is returned
\* as it is
ReductionFactor(call_count) ==
    IF call_count > SleepThreshold
    THEN IF FactorCap < call_count - SleepThreshold THEN FactorCap
         ELSE call_count - SleepThreshold
    ELSE 0

\* lines 37-39: both bounds times (1 - reduction_factor), in 1/FactorScale s
AdjustedSleepRange(min_max, call_count) ==
    << min_max[1] * (FactorScale - ReductionFactor(call_count)),
       min_max[2] * (FactorScale - ReductionFactor(call_count)) >>

InitSleep ==
    /\ CampaignInit
    /\ RetryIdle
    /\ ResolverIdle
    /\ MainIdle
    /\ BrowserIdle
    /\ SleepIdle
    /\ ExtraIdle

\* adaptive_sleep, lines 42-93: the counter is incremented under the lock, the
\* range is adjusted for the count and halved when the last sleep was less
\* than 0.1 s ago; ranges are kept in 1/(2 * FactorScale) s
AdaptiveSleep ==
    /\ sleep_call_count < MaxSleepCalls
    /\ sleep_call_count' = sleep_call_count + 1
    /\ reduction_factor' = ReductionFactor(sleep_call_count')
    /\ \E wait_range \in WaitRanges, quick \in BOOLEAN :
          \E adjusted_range \in {AdjustedSleepRange(wait_range, sleep_call_count')} :
             sleep_range' = IF quick THEN adjusted_range
                            ELSE <<2 * adjusted_range[1], 2 * adjusted_range[2]>>
    /\ UNCHANGED <<campaignVars, retryVars, resolveVars, mainVars, browserVars,
                   extraVars>>

NextSleep == AdaptiveSleep

SpecSleep == InitSleep /\ [][NextSleep]_vars

(* ================= jobs.py: the application form ================= *)
\* the _fill_form_* methods in the order of lines 184-196
FormHandlers == <<"inputs", "dropdowns", "textareas", "radios", "checkboxes">>

\* the button texts of line 201, in the order the for loop tries them
ContinueLabels ==
    <<"Continue to next step", "Review your application", "Next", "Review">>

\* a lookup that clicks the last text that is present
LastPresent(present) ==
    IF \E i \in 1..Len(ContinueLabels) : ContinueLabels[i] \in present
    THEN CHOOSE i \in 1..Len(ContinueLabels) :
            /\ ContinueLabels[i] \in present
            /\ \A j \in (i + 1)..Len(ContinueLabels) : ContinueLabels[j] \notin present
    ELSE None

\* lines 201-215: the text whose find_element succeeds first (NoSuchElementException
\* goes on to the next text); None when the for loop reaches its else clause
FirstPresent(present) ==
    IF \E i \in 1..Len(ContinueLabels) : ContinueLabels[i] \in present
    THEN CHOOSE i \in 1..Len(ContinueLabels) :
            /\ ContinueLabels[i] \in present
            /\ \A j \in 1..(i - 1) : ContinueLabels[j] \notin present
    ELSE None

\* apply_to_job has clicked 'Easy Apply' and is about to fill the form
InitForm ==
    /\ CampaignInit
    /\ RetryIdle
    /\ ResolverIdle
    /\ MainIdle
    /\ BrowserIdle
    /\ SleepIdle
    /\ FormIdle
    /\ CheckboxIdle
    /\ ThreadsIdle

\* apply_to_job line 133 and _fill_application_form lines 176-181: form_step = 1,
\* the while loop is entered
EnterForm ==
    /\ fa_pc = "idle"
    /\ fa_pc' = FormHandlers[1]
    /\ form_step' = 1
    /\ step_fills' = <<>>
    /\ UNCHANGED <<controls_present, clicked, nav_outcome>>
    /\ UNCHANGED <<campaignVars, retryVars, resolveVars, mainVars, browserVars,
                   sleepVars, checkboxVars, threadVars>>

\* lines 184-196: one _fill_form_* call; each catches every Exception of its own
\* body, so the next one always follows
RunFormHandler ==
    /\ \E i \in 1..Len(FormHandlers) :
          /\ fa_pc = FormHandlers[i]
          /\ step_fills' = Append(step_fills, FormHandlers[i])
          /\ fa_pc' = (IF i < Len(FormHandlers) THEN FormHandlers[i + 1]
                       ELSE "continue")
    /\ UNCHANGED <<form_step, controls_present, clicked, nav_outcome>>
    /\ UNCHANGED <<campaignVars, retryVars, resolveVars, mainVars, browserVars,
                   sleepVars, checkboxVars, threadVars>>

\* lines 199-218: the lookup of a continue control. The page decides which texts
\* are present. A click (203-209) starts the next pass of the while loop; the
\* else clause of the for loop (212-215) and any other exception of find_element
\* or click (216-218) break the while loop, and the form returns True (220-221).
\* form_step is only logged: it is counted up to MaxFormSteps
LookForContinue ==
    /\ fa_pc = "continue"
    /\ \E present \in SUBSET {ContinueLabels[i] : i \in 1..Len(ContinueLabels)},
          o \in {"ok", "error"} :
          LET first == FirstPresent(present)
          IN /\ controls_present' = present
             /\ IF o = "ok" /\ first # None
                THEN /\ clicked' = <<ContinueLabels[first]>>
                     /\ nav_outcome' = "clicked"
                     /\ form_step' = (IF form_step < MaxFormSteps THEN form_step + 1
                                      ELSE form_step)
                     /\ fa_pc' = FormHandlers[1]
                ELSE /\ clicked' = <<>>
                     /\ nav_outcome' = (IF o = "error" THEN "error" ELSE "absent")
                     /\ form_step' = form_step
                     /\ fa_pc' = "submit"
    /\ step_fills' = <<>>
    /\ UNCHANGED <<campaignVars, retryVars, resolveVars, mainVars, browserVars,
                   sleepVars, checkboxVars, threadVars>>

\* apply_to_job lines 136-140: wait for the submit control and click it (a
\* timeout is caught at line 152)
SubmitAttempt ==
    /\ fa_pc = "submit"
    /\ fa_pc' = "done"
    /\ UNCHANGED <<form_step, step_fills, controls_present, clicked, nav_outcome>>
    /\ UNCHANGED <<campaignVars, retryVars, resolveVars, mainVars, browserVars,
                   sleepVars, checkboxVars, threadVars>>

NextForm ==
    \/ EnterForm
    \/ RunFormHandler
    \/ LookForContinue
    \/ SubmitAttempt

SpecForm == InitForm /\ [][NextForm]_vars

\* the controller thread is never suspended for good: whatever it can do next
\* it eventually does
SpecFormFair == SpecForm /\ WF_vars(NextForm)

(* ================= jobs.py: _fill_form_checkboxes ================= *)
\* what profile_data can hold for the key of a checkbox; "" stands for a key
\* that is missing or has no value (line 565 is false)
CheckboxValues == {"", "yes", "Yes", "TRUE", "1", "Checked", "no", "on", "0", "false"}

\* a comparison that does not lower the value first
ShouldCheckCaseSensitive(value) == value \in {"yes", "true", "1", "checked"}

\* lines 567-568: value = profile_data[field_key].lower();
\* should_check = value in ["yes", "true", "1", "checked"]
ShouldCheck(value) == Lower(value) \in {"yes", "true", "1", "checked"}

\* a form step with up to MaxBoxes checkboxes, each in some state
InitCheckbox ==
    /\ CampaignInit
    /\ RetryIdle
    /\ ResolverIdle
    /\ MainIdle
    /\ BrowserIdle
    /\ SleepIdle
    /\ FormIdle
    /\ ThreadsIdle
    /\ \E n \in 1..MaxBoxes :
          /\ cb_values \in [1..n -> CheckboxValues]
          /\ cb_selected \in [1..n -> BOOLEAN]
    /\ cb_idx = 0
    /\ cb_pass = 0
    /\ cb_clicks = 0

\* lines 549-553: find_elements, the for loop starts
BeginCheckboxPass ==
    /\ cb_idx = 0
    /\ cb_pass < MaxPasses
    /\ cb_pass' = cb_pass + 1
    /\ cb_idx' = 1
    /\ cb_clicks' = 0
    /\ UNCHANGED <<cb_values, cb_selected>>
    /\ UNCHANGED <<campaignVars, retryVars, resolveVars, mainVars, browserVars,
                   sleepVars, formVars, threadVars>>

\* lines 554-583: one checkbox. With a value the box is clicked when
\* is_selected() differs from should_check (571-577), and a click toggles the
\* box; without one the label goes to _add_missing_field_to_config (583)
HandleCheckbox ==
    /\ cb_idx \in 1..Len(cb_values)
    /\ LET value == cb_values[cb_idx]
           is_checked == cb_selected[cb_idx]
           click == Truthy(value) /\ ShouldCheck(value) # is_checked
       IN /\ cb_selected' = [cb_selected EXCEPT ![cb_idx] =
                                IF click THEN ~is_checked ELSE is_checked]
          /\ cb_clicks' = (IF click THEN cb_clicks + 1 ELSE cb_clicks)
    /\ cb_idx' = cb_idx + 1
    /\ UNCHANGED <<cb_values, cb_pass>>
    /\ UNCHANGED <<campaignVars, retryVars, resolveVars, mainVars, browserVars,
                   sleepVars, formVars, threadVars>>

\* the for loop of line 553 is exhausted
EndCheckboxPass ==
    /\ cb_idx = Len(cb_values) + 1
    /\ cb_idx' = 0
    /\ UNCHANGED <<cb_values, cb_selected, cb_pass, cb_clicks>>
    /\ UNCHANGED <<campaignVars, retryVars, resolveVars, mainVars, browserVars,
                   sleepVars, formVars, threadVars>>

NextCheckbox ==
    \/ BeginCheckboxPass
    \/ HandleCheckbox
    \/ EndCheckboxPass

SpecCheckbox == InitCheckbox /\ [][NextCheckbox]_vars

(* ================= helpers.py: adaptive_sleep from several threads ================= *)
Threads == 1..MaxThreads

\* a lock that never makes a thread wait
LockFreeAlways(holder) == TRUE

\* threading.Lock: acquire returns only while no thread holds the lock
LockFree(holder) == holder = None

\* MaxThreads threads are about to call adaptive_sleep, _sleep_call_count = 0
InitThreads ==
    /\ CampaignInit
    /\ RetryIdle
    /\ ResolverIdle
    /\ MainIdle
    /\ BrowserIdle
    /\ SleepIdle
    /\ FormIdle
    /\ CheckboxIdle
    /\ th_pc = [t \in Threads |-> "start"]
    /\ th_tmp = [t \in Threads |-> 0]
    /\ th_count = [t \in Threads |-> None]
    /\ sleep_lock = None

\* line 69: with _sleep_call_lock (lines 55-66 touch only locals)
ThreadAcquire(t) ==
    /\ th_pc[t] = "start"
    /\ LockFree(sleep_lock)
    /\ sleep_lock' = t
    /\ th_pc' = [th_pc EXCEPT ![t] = "load"]
    /\ UNCHANGED <<th_tmp, th_count, sleepVars>>
    /\ UNCHANGED <<campaignVars, retryVars, resolveVars, mainVars, browserVars,
                   formVars, checkboxVars>>

\* line 70, _sleep_call_count += 1: the global is loaded
ThreadLoad(t) ==
    /\ th_pc[t] = "load"
    /\ th_tmp' = [th_tmp EXCEPT ![t] = sleep_call_count]
    /\ th_pc' = [th_pc EXCEPT ![t] = "store"]
    /\ UNCHANGED <<th_count, sleep_lock, sleepVars>>
    /\ UNCHANGED <<campaignVars, retryVars, resolveVars, mainVars, browserVars,
                   formVars, checkboxVars>>

\* line 70: the sum is stored into the global
ThreadStore(t) ==
    /\ th_pc[t] = "store"
    /\ sleep_call_count' = th_tmp[t] + 1
    /\ th_tmp' = [th_tmp EXCEPT ![t] = 0]
    /\ th_pc' = [th_pc EXCEPT ![t] = "read"]
    /\ UNCHANGED <<th_count, sleep_lock, reduction_factor, sleep_range>>
    /\ UNCHANGED <<campaignVars, retryVars, resolveVars, mainVars, browserVars,
                   formVars, checkboxVars>>

\* line 71: count = _sleep_call_count (lines 74-76 keep the time of the call)
ThreadReadCount(t) ==
    /\ th_pc[t] = "read"
    /\ th_count' = [th_count EXCEPT ![t] = sleep_call_count]
    /\ th_pc' = [th_pc EXCEPT ![t] = "release"]
    /\ UNCHANGED <<th_tmp, sleep_lock, sleepVars>>
    /\ UNCHANGED <<campaignVars, retryVars, resolveVars, mainVars, browserVars,
                   formVars, checkboxVars>>

\* the with block of line 69 is left: the lock is released
ThreadRelease(t) ==
    /\ th_pc[t] = "release"
    /\ sleep_lock' = None
    /\ th_pc' = [th_pc EXCEPT ![t] = "adjust"]
    /\ UNCHANGED <<th_tmp, th_count, sleepVars>>
    /\ UNCHANGED <<campaignVars, retryVars, resolveVars, mainVars, browserVars,
                   formVars, checkboxVars>>

\* lines 79-93: the range is adjusted for the local count, the thread sleeps
\* and returns
ThreadAdjust(t) ==
    /\ th_pc[t] = "adjust"
    /\ th_pc' = [th_pc EXCEPT ![t] = "done"]
    /\ UNCHANGED <<th_tmp, th_count, sleep_lock, sleepVars>>
    /\ UNCHANGED <<campaignVars, retryVars, resolveVars, mainVars, browserVars,
                   formVars, checkboxVars>>

NextThreads ==
    \E t \in Threads :
       \/ ThreadAcquire(t)
       \/ ThreadLoad(t)
       \/ ThreadStore(t)
       \/ ThreadReadCount(t)
       \/ ThreadRelease(t)
       \/ ThreadAdjust(t)

SpecThreads == InitThreads /\ [][NextThreads]_vars

(* ================= properties ================= *)

\* C1: in a connection campaign with max_connections = L > 0, connection_count <= L
\* in every reachable state and in the returned statistics, inline sends and the
\* sends made inside tab drains (the final drain included) counted together.
C1_QuotaNeverExceeded ==
    (kind = "connection" /\ max_connections > 0) =>
        /\ connection_count <= max_connections
        /\ (pc = "returned" => stats[1] <= max_connections)

\* C2: during a connection campaign the number of open secondary contexts (window
\* handles other than main_window) never exceeds max_tabs.
C2_OpenTabsBounded ==
    kind = "connection" => Cardinality(handles \ {main_window}) <= max_tabs

\* C3: every results page the engine lands on undergoes target discovery before
\* the engine advances past it: no page advance leaves a page on which
\* find_connection_buttons has not run.
C3_DiscoveryBeforeAdvance ==
    [][(kind = "connection" /\ page >= 1 /\ page' # page) => discovered]_vars

\* C4: process_opened_tabs always returns with the session focused on main_window,
\* for every number of open tabs and every per-tab outcome (connect raising, a tab
\* switch or a close failing part-way through the drain).
C4_DrainEndsOnMainWindow ==
    [][DrainRestore => focus' = main_window]_vars

\* C5: on every way the main loop of run_connection_campaign ends, a final
\* process_opened_tabs pass has run and the session is focused on main_window when
\* the call returns.
C5_FinalDrainAndFocus ==
    (kind = "connection" /\ pc = "returned") =>
        (final_drain_ran /\ focus = main_window)

\* C6: run_connection_campaign and run_job_campaign always return a statistics
\* record whatever fails internally: no internal failure reaches the caller as an
\* exception, and the returned record holds the counts accumulated so far.
C6_AlwaysReturnsStatistics ==
    /\ (~interrupted => pc # "raised")
    /\ (kind = "connection" /\ pc = "returned" =>
            stats = <<connection_count, max_connections>>)
    /\ (kind = "job" /\ pc = "returned" =>
            stats = <<application_count, viewed_jobs_count, max_applications>>)

\* C7: a KeyboardInterrupt raised once the connection campaign is on its results
\* pages (in discovery, a target action, a drain or pagination) is followed by no
\* further discovery, dispatch or page advance; the engine goes to the final
\* drain-and-restore step and still returns the statistics accumulated so far.
C7_InterruptStillReturns ==
    (kind = "connection" /\ interrupted /\ page >= 1) =>
        /\ ~work_after_interrupt
        /\ pc # "raised"
        /\ (pc = "returned" =>
               final_drain_ran /\ stats = <<connection_count, max_connections>>)

\* C8: for each job card dispatched by run_job_campaign 'Submit application' is
\* clicked at most once, and when the success indicator is not found the attempt
\* counts as failed (application_count unchanged) and the retry wrapper makes no
\* second attempt for that card.
C8_SubmitAtMostOnce ==
    kind = "job" =>
        /\ submit_clicks <= 1
        /\ (last_outcome = "verify_failed" =>
               application_count = count_at_dispatch /\ pc # "japply")

\* C8 witness: a dispatched card whose submission was clicked and not verified
C8_Witness ==
    /\ kind = "job"
    /\ last_outcome = "verify_failed"
    /\ submit_clicks = 1
    /\ pc = "jcards"

\* C9: in a job campaign with max_applications = L > 0, application_count <= L in
\* every reachable state and in the returned statistics, and apply_to_job is never
\* entered once application_count = L.
C9_JobQuotaNeverExceeded ==
    (kind = "job" /\ max_applications > 0) =>
        /\ application_count <= max_applications
        /\ (pc = "japply" /\ last_outcome = "none" =>
               application_count < max_applications)
        /\ (pc = "returned" => stats[1] <= max_applications)

\* C9 witness: the quota is reached while cards of the page are still undispatched
C9_Witness ==
    /\ kind = "job"
    /\ max_applications > 0
    /\ application_count = max_applications
    /\ pc = "jcards"
    /\ cards_left > 0

\* C10: _open_profile_in_new_tab never changes the focused context, both when the
\* new tab is opened and when extracting the link or opening the tab fails.
C10_OpenKeepsFocus ==
    [][OpenProfileInNewTab => focus' = focus]_vars

\* C10 witness: on the first page the first target was a Follow target whose
\* profile was opened in a new tab, and the main window is still focused
C10_Witness ==
    /\ kind = "connection"
    /\ pc = "buttons"
    /\ page = 1
    /\ idx = 2
    /\ Cardinality(handles) = 2
    /\ focus = main_window

\* the first invocation on which func returns a value (0: none within the plan)
FirstSuccess(plan) ==
    IF \E i \in DOMAIN plan : plan[i] \in FuncValues
    THEN CHOOSE i \in DOMAIN plan :
            /\ plan[i] \in FuncValues
            /\ \A j \in 1..(i - 1) : plan[j] \notin FuncValues
    ELSE 0

RetryDone == r_pc \in {"returned", "raised"}

\* C11: retry(max_attempts=N) with N >= 1 invokes func at most N times; when func
\* first succeeds on its k-th invocation, k <= N, the wrapper ends after exactly k
\* invocations, returns that invocation's value and raises nothing.
C11_RetryInvocations ==
    r_max_attempts >= 1 =>
        /\ r_calls <= r_max_attempts
        /\ \A k \in 1..r_max_attempts :
              (RetryDone /\ FirstSuccess(r_plan) = k) =>
                  /\ r_calls = k
                  /\ r_pc = "returned"
                  /\ r_result = r_plan[k]
                  /\ r_error = "none"

\* fail, fail, succeed under max_attempts = 3: three invocations and a value
C11_Witness ==
    /\ r_max_attempts = 3
    /\ FirstSuccess(r_plan) = 3
    /\ r_pc = "returned"
    /\ r_calls = 3
    /\ r_result = r_plan[3]

\* C12: when func fails on all N invocations, N >= 1, the wrapper re-raises the
\* exception of the last invocation, and time.sleep(delay_seconds) has run exactly
\* N-1 times: after each failed attempt but the last; it never runs after a
\* success.
C12_RetryExhaustion ==
    /\ (r_max_attempts >= 1 /\ RetryDone
        /\ \A i \in 1..r_max_attempts : r_plan[i] \in FuncExceptions) =>
            /\ r_pc = "raised"
            /\ r_error = r_plan[r_max_attempts]
            /\ r_slept = 1..(r_max_attempts - 1)
            /\ Cardinality(r_slept) = r_max_attempts - 1
    /\ \A i \in r_slept : r_plan[i] \in FuncExceptions /\ i < r_max_attempts
    /\ (r_pc = "returned" /\ r_calls >= 1) => r_calls \notin r_slept

\* three failing invocations of different kinds under max_attempts = 3
C12_Witness ==
    /\ r_max_attempts = 3
    /\ \A i \in 1..3 : r_plan[i] \in FuncExceptions
    /\ r_plan[1] # r_plan[3]
    /\ r_pc = "raised"
    /\ r_slept = {1, 2}

\* the campaign runs without an upper bound on its success count
LimitZero ==
    \/ kind = "connection" /\ max_connections = 0
    \/ kind = "job" /\ max_applications = 0

\* the step leaves the main loop of run_connection_campaign / run_job_campaign
ConnLoopLeft ==
    /\ pc \in ConnTryRegion \/ (pc \in ConnDrainRegion /\ drain_caller = "loop")
    /\ pc' = "drain"
    /\ drain_caller' = "final"
JobLoopLeft == pc \in JobTryRegion /\ pc' = "jdone"

\* C13: with a limit of 0 no quota test ever stops a campaign or skips a target:
\* every listed target is dispatched whatever the count is, and the main loop is
\* left only by a pagination call that reports no further page, by an error or by
\* an interrupt.
C13_UnlimitedNeverStopsOnCount ==
    [][LimitZero =>
          /\ ~QuotaStop /\ ~JobQuotaBreak /\ ~JobCardQuotaBreak
          /\ (pc = "buttons" /\ idx <= nbuttons /\ interrupted' = interrupted)
                => (idx' = idx + 1 /\ pc' = "buttons")
          /\ (pc = "jcards" /\ cards_left > 0 /\ interrupted' = interrupted)
                => (cards_left' = cards_left - 1 /\ pc' = "japply")
          /\ (ConnLoopLeft /\ interrupted' = interrupted)
                => pc \in {"next", "fp_next", "tabcheck"}
          /\ (JobLoopLeft /\ interrupted' = interrupted)
                => pc \in {"jnext", "jnext_empty"}]_vars

\* an unlimited connection campaign that sent three requests over two pages
C13_Witness ==
    /\ kind = "connection"
    /\ max_connections = 0
    /\ pc = "returned"
    /\ page >= 2
    /\ stats[1] >= 3

\* positions of run_connection_campaign after its main loop
InFinally ==
    \/ pc \in ConnDrainRegion /\ drain_caller = "final"
    \/ pc \in {"final_restore", "returned", "raised"}

\* C14: in a connection campaign with L > 0, once connection_count has reached L
\* while targets of the page are still undispatched, those targets are left
\* untouched and the run ends without another page advance.
C14_QuotaStopLeavesTargets ==
    [][kind = "connection" =>
          /\ (/\ pc = "buttons" /\ idx <= nbuttons
              /\ max_connections > 0 /\ connection_count >= max_connections)
                => /\ pc' = "drain" /\ drain_caller' = "final"
                   /\ connection_count' = connection_count
                   /\ page' = page
                   /\ handles' = handles
                   /\ (interrupted' = interrupted => untouched' = nbuttons - idx + 1)
          /\ InFinally => (InFinally' /\ page' = page)
          /\ untouched > 0 => InFinally]_vars

\* L = 2 and a page of three targets: two sent, one left, no page advance
C14_Witness ==
    /\ kind = "connection"
    /\ pc = "returned"
    /\ max_connections = 2
    /\ stats[1] = 2
    /\ untouched = 1
    /\ page = 1

\* outcomes of a dispatched target that count as a failure on that target
InlineFailures == {"send_failed", "click_failed", "stale", "link_failed"}

\* C15: in process_connection_buttons a failure on one target leaves
\* connection_count unchanged and does not end the page: the loop goes on to the
\* next target, and every listed target is dispatched unless the quota test stops
\* the page.
C15_FailureKeepsCountAndPage ==
    [][/\ (pc = "buttons" /\ idx' = idx + 1 /\ last_dispatch' \in InlineFailures)
            => /\ connection_count' = connection_count
               /\ pc' = "buttons"
               /\ nbuttons' = nbuttons
       /\ (/\ pc = "buttons" /\ idx <= nbuttons /\ interrupted' = interrupted
           /\ ~(max_connections > 0 /\ connection_count >= max_connections))
            => (idx' = idx + 1 /\ last_dispatch' # "none")]_vars

\* two targets dispatched on the first page: the first failed, the second was sent
C15_Witness ==
    /\ pc = "buttons"
    /\ page = 1
    /\ handles = {FirstWindow}
    /\ idx = 3
    /\ last_dispatch = "sent"
    /\ connection_count = 1

\* transient failures of the inline action on a "Connect" target
InlineTransient == {"stale", "click_failed", "send_failed"}

\* C16: a transient failure on a connection target's inline action is retried by
\* the retry policy where it happens; the target is given up only after the
\* retries are exhausted, never on the first occurrence of the failure.
C16_InlineFailureRetried ==
    last_dispatch \in InlineTransient => InlineTries(last_dispatch) >= 2

\* the step is one iteration of the loop of process_opened_tabs over its tabs
DrainTabStep ==
    /\ pc = "drain_tab" /\ pc' = "drain_tab"
    /\ tabs_to_process # <<>>
    /\ tabs_to_process' = Tail(tabs_to_process)
    /\ interrupted' = interrupted

\* C17: process_opened_tabs switches into every handle other than main_window
\* once, attempts the connect there and closes that window whatever the outcome;
\* when it returns no secondary window is open.
C17_DrainClosesEveryTab ==
    [][/\ DrainTabStep
            => Head(tabs_to_process) \notin handles'
       /\ (DrainRestore /\ pc = "drain_tab") => handles' \subseteq {main_window}]_vars

\* C18: process_opened_tabs returns the number of tabs in which the connect
\* succeeded and connection_count grows during the drain by exactly that number:
\* a tab adds at most 1, also when retry.wrapper re-runs connect_in_profile_tab,
\* and a tab that fails adds 0.
C18_DrainReturnsSuccesses ==
    [][/\ DrainTabStep
            => /\ connection_count' - connection_count
                     = drain_successes' - drain_successes
               /\ connection_count' - connection_count \in {0, 1}
       /\ DrainRestore
            => /\ ProcessOpenedTabsReturn(connection_count, initial_count)
                     = drain_successes
               /\ connection_count' = connection_count]_vars

\* a drain whose last tab succeeded on the second run of connect_in_profile_tab
C18_Witness ==
    /\ pc = "drain_tab"
    /\ tabs_to_process = <<>>
    /\ tab_attempts = 1
    /\ drain_successes = 1
    /\ ProcessOpenedTabsReturn(connection_count, initial_count) = 1

\* C19: for text-input, dropdown, textarea and radio-group fields the resolved key
\* is the target of the first rule, in the order of the category's table, whose
\* pattern is a substring of the lowercased label and whose profile value is
\* non-empty; a rule that matches with an empty value is passed over.
C19_FirstRuleWithValue ==
    (f_pc = "resolved" /\ f_category \in TableCategories) =>
        LET t == RuleTable(f_category)
            applies(i) == /\ Contains(t[i][1], field_label)
                          /\ Get(profile_data, t[i][2]) # ""
        IN \A i \in 1..Len(t) :
              (applies(i) /\ \A j \in 1..(i - 1) : ~applies(j))
                  => matched_key = t[i][2]

\* 'Years of Experience' as a text input, years_of_experience empty: the rule
\* "years of experience" is passed over and the later rule "years" decides
C19_Witness ==
    /\ f_pc = "resolved"
    /\ f_category = "input"
    /\ field_label = "years of experience"
    /\ Get(profile_data, "years_of_experience") = ""
    /\ matched_key = "total_years_experience"

\* C20: in every field category, when no table rule applies, the resolved key is
\* the first profile key whose name, underscores replaced by spaces, is a
\* substring of the lowercased label and whose value is non-empty; the result is
\* none only if there is no such key.
C20_DirectFallback ==
    (f_pc = "resolved" /\ f_category \in FieldCategories) =>
        LET t == RuleTable(f_category)
            applies(i) == /\ Contains(t[i][1], field_label)
                          /\ Get(profile_data, t[i][2]) # ""
            direct(i) == /\ Contains(Replace(profile_data[i][1], "_", " "), field_label)
                         /\ profile_data[i][2] # ""
        IN (\A i \in 1..Len(t) : ~applies(i)) =>
              /\ \A i \in 1..Len(profile_data) :
                    (direct(i) /\ \A j \in 1..(i - 1) : ~direct(j))
                        => matched_key = profile_data[i][1]
              /\ (matched_key = NoKey
                    => \A i \in 1..Len(profile_data) : ~direct(i))

\* C21: the label 'Years of Experience' resolves to the profile key
\* years_of_experience whenever that key holds a non-empty value, whatever
\* the other profile values are and in every field category.
C21_YearsOfExperience ==
    (/\ f_pc = "resolved"
     /\ field_label = "years of experience"
     /\ Truthy(Get(profile_data, "years_of_experience")))
        => matched_key = "years_of_experience"

\* a field is being resolved
ResolveStep == f_pc = "idle" /\ f_pc' = "resolved"

\* _add_missing_field_to_config runs for the field, and the key it derives
AugmentStep == f_pc = "resolved" /\ f_pc' = "augmented"
FieldKey == DerivedKeyOf[LabelOf(field_label)]

\* C22: resolution is deterministic and unaffected by earlier resolutions and
\* augmentations: whenever a field is resolved, after any number of fields
\* handled and keys added, the key found is the key the same label and
\* category resolve to against the profile as it was loaded.
C22_ResolutionUnaffected ==
    [][ResolveStep =>
          matched_key' = ResolveKey(f_category', field_label', loaded_profile)]_vars

\* the label of the field was augmented earlier and is resolved again
C22_Witness ==
    /\ f_pc = "resolved"
    /\ HasKey(profile_data, FieldKey)
    /\ ~HasKey(loaded_profile, FieldKey)
    /\ matched_key = NoKey

\* C23: a label that matches no profile value adds its derived key with an
\* empty value on its first observation only: when the key is absent it is
\* appended with the value "", and when it is present the profile, the store
\* and the file are left alone.
C23_FirstObservationOnly ==
    [][AugmentStep =>
          IF HasKey(profile_data, FieldKey)
          THEN /\ profile_data' = profile_data
               /\ config_store' = config_store
               /\ store_write' = "none"
          ELSE profile_data' = Append(profile_data, <<FieldKey, "">>)]_vars

\* C23 amended: the same for labels of at least three characters; a shorter
\* label that matches no profile value adds nothing at any observation.
C23_FirstObservationOnlyLong ==
    [][AugmentStep =>
          IF HasKey(profile_data, FieldKey) \/ Len(field_label) < 3
          THEN /\ profile_data' = profile_data
               /\ config_store' = config_store
               /\ store_write' = "none"
          ELSE profile_data' = Append(profile_data, <<FieldKey, "">>)]_vars

\* a label whose key an earlier observation added was observed again
C23_Witness ==
    /\ f_pc = "augmented"
    /\ store_write = "none"
    /\ HasKey(profile_data, FieldKey)
    /\ ~HasKey(loaded_profile, FieldKey)

\* every key of dict d is in dict e, a non-empty value of d with the same value
KeepsEntries(d, e) ==
    \A i \in 1..Len(d) :
        /\ HasKey(e, d[i][1])
        /\ Truthy(d[i][2]) => Get(e, d[i][1]) = d[i][2]

\* C24: augmentation is append-only, in memory and in the external store: it
\* removes no key and changes no non-empty value, whatever the store holds
\* at the moment of the write.
C24_AppendOnly ==
    [][AugmentStep =>
          /\ KeepsEntries(profile_data, profile_data')
          /\ KeepsEntries(config_store, config_store')]_vars

\* C25: when augmentation has added a key to the in-memory profile, the key
\* is in the external store before the next field is processed, whatever the
\* outcome of the store write.
C25_AddedKeyInStore ==
    (f_pc = "augmented" /\ store_write # "none") => HasKey(config_store, FieldKey)

\* C26: in both campaign kinds a transient failure while advancing to the
\* next results page is retried: when go_to_next_page has reported such a
\* failure as False, its body was invoked as often as the retry policy allows.
C26_NextPageFailureRetried ==
    next_page[1] = "error" => next_page[2] = RetryMaxAttempts

\* C27: sign-in is attempted once before any campaign starts and no campaign
\* operation occurs unless login returned True: whenever a campaign has been
\* entered, main has called login exactly once and it returned True; after a
\* False result the campaign is never entered and main ends with sys.exit.
C27_LoginGatesCampaign ==
    /\ kind # "none" => (login_calls = 1 /\ login_success = "True")
    /\ login_success = "False" =>
          (kind = "none" /\ pc = "idle" /\ m_pc \in {"check", "exited", "interrupted"})

\* a campaign has run to its end after a successful login
C27_Witness ==
    /\ m_pc = "done"
    /\ login_success = "True"
    /\ kind \in {"connection", "job"}

\* C28: any number of Browser() constructions without an intervening
\* cleanup() return the same instance and start the underlying driver exactly
\* once: when Browser() has returned since the last cleanup(), all the objects
\* returned since then are one object and one driver was started since then.
C28_SingletonStartsOnce ==
    b_returned # <<>> =>
        /\ \A i \in 1..Len(b_returned) : b_returned[i] = b_returned[1]
        /\ b_started = 1

\* a step of cleanup()
CleanupStep == b_cleanups' = b_cleanups + 1

\* C29: cleanup() on a started Browser calls quit once and leaves driver None,
\* wait None and _initialized False, also when quit raises; a cleanup() of a
\* Browser without a driver calls quit no more.
C29_CleanupQuitsOnce ==
    [][CleanupStep =>
          IF b_driver # None
          THEN /\ b_quits' = b_quits + 1
               /\ b_driver' = None
               /\ b_wait' = None
               /\ b_initialized' = FALSE
          ELSE /\ b_quits' = b_quits
               /\ b_driver' = None]_vars

\* a second cleanup() has followed the cleanup() of a started Browser
C29_Witness ==
    /\ b_cleanups = 2
    /\ b_drivers = 1
    /\ b_quits = 1
    /\ b_driver = None
    /\ b_initialized = FALSE

\* a call of adaptive_sleep
SleepStep == sleep_call_count' = sleep_call_count + 1

\* C30: the shrink factor is 0 while the call counter is at most 50, grows
\* with the counter from 0 at counter 50 to 0.7 at counter 250, is strictly
\* below 0.7 for every counter below 250 and never exceeds 0.7.
C30_ShrinkFactor ==
    [][SleepStep =>
          /\ sleep_call_count' <= SleepThreshold => reduction_factor' = 0
          /\ reduction_factor' >= reduction_factor
          /\ sleep_call_count' = RampEnd => reduction_factor' = FactorCap
          /\ sleep_call_count' < RampEnd => reduction_factor' < FactorCap
          /\ reduction_factor' <= FactorCap]_vars

\* C30 amended: the shrink factor is 0 while the call counter is at most 50,
\* grows with the counter from 0 at counter 50 to 0.7 at counter 190, is
\* strictly below 0.7 for every counter below 190, is 0.7 from counter 190 on
\* and never exceeds 0.7.
C30_ShrinkFactorCapAt190 ==
    [][SleepStep =>
          /\ sleep_call_count' <= SleepThreshold => reduction_factor' = 0
          /\ reduction_factor' >= reduction_factor
          /\ sleep_call_count' >= CapCounter => reduction_factor' = FactorCap
          /\ sleep_call_count' < CapCounter => reduction_factor' < FactorCap
          /\ (SleepThreshold < sleep_call_count' /\ sleep_call_count' <= CapCounter)
                => reduction_factor' > reduction_factor
          /\ reduction_factor' <= FactorCap]_vars

\* the call at which the factor reaches 0.7
C30_Witness ==
    /\ sleep_call_count = CapCounter
    /\ reduction_factor = FactorCap
    /\ sleep_range = AdjustedSleepRange(<<1, 3>>, sleep_call_count)

\* C31: in a job campaign the result sink is called once per viewed job card
\* and once per outcome: the calls that record a discovered job are as many as
\* viewed_jobs_count, and once an apply_to_job outcome exists for the current
\* card a status update has been made.
C31_SinkCalledPerCard ==
    kind = "job" =>
        /\ record_calls = viewed_jobs_count
        /\ (last_outcome # "none" => status_calls >= 1)

\* the call of go_to_next_page at line 421 of the main loop
MainLoopNextPageCall ==
    kind = "connection" /\ pc = "next" /\ next_page = NoCall /\ next_page' # NoCall

\* C32: whenever the main loop of run_connection_campaign calls go_to_next_page
\* to advance to the next results page, fewer than max_tabs secondary contexts
\* are open: a tab count of max_tabs or more after a page has been drained by
\* process_opened_tabs before the call.
C32_AdvanceBelowMaxTabs ==
    [][MainLoopNextPageCall
          => Cardinality(handles \ {main_window}) < max_tabs]_vars

\* C33: process_opened_tabs never closes the primary context: whichever switch,
\* connect or close operations fail during an iteration of its loop, a
\* main_window that was an open window handle before the iteration still is one
\* after it, and so after the drain.
C33_DrainKeepsMainWindow ==
    [][(DrainTabStep /\ main_window \in handles) => main_window \in handles']_vars

\* the first discovery of a page visit: find_connection_buttons at
\* connections.py line 358, find_job_listings at jobs.py line 763
FirstDiscoveryStep ==
    \/ kind = "connection" /\ pc = "find1" /\ pc' \in {"find2", "buttons"}
    \/ kind = "job" /\ pc = "jloop" /\ pc' \in {"jnext_empty", "jcards"}

\* what that discovery found
FirstDiscoveryEmpty ==
    IF kind = "connection" THEN nbuttons' = 0 ELSE cards_left' = 0

\* positions at which the engine is about to run discovery a second time on the
\* same page visit: connections.py lines 361-363; run_job_campaign has none
SecondDiscoveryPositions == {"find2"}

\* positions at which go_to_next_page is called because the page has no targets
NoTargetPagination == {"fp_next", "jnext_empty"}

\* C34: in both campaign kinds, a discovery that finds no targets on a page is
\* retried exactly once before pagination: after an empty first discovery the
\* engine is about to discover again, a second discovery happens only after an
\* empty first one, and the no-targets pagination is entered only from the
\* second discovery.
C34_DiscoveryRetriedOnce ==
    [][/\ (FirstDiscoveryStep /\ FirstDiscoveryEmpty)
             => pc' \in SecondDiscoveryPositions
       /\ (FirstDiscoveryStep /\ ~FirstDiscoveryEmpty)
             => pc' \notin SecondDiscoveryPositions
       /\ (pc' \in NoTargetPagination /\ pc \notin NoTargetPagination)
             => pc \in SecondDiscoveryPositions]_vars

\* the lookup of a continue control of one form step
LookStep == fa_pc = "continue" /\ fa_pc' # "continue"

\* C35: in _fill_application_form every step fills text inputs, dropdowns,
\* textareas, radio groups and checkboxes, in that order, before a continue
\* control is looked for; the lookup clicks at most one control, the first
\* present among 'Continue to next step', 'Review your application', 'Next',
\* 'Review'; when none is present the sub-flow ends, and the submit control is
\* attempted only once the sub-flow has ended.
C35_FormStepOrder ==
    [][/\ LookStep
            => /\ step_fills = <<"inputs", "dropdowns", "textareas", "radios",
                                 "checkboxes">>
               /\ Len(clicked') <= 1
               /\ clicked' # <<>> =>
                     LET order == <<"Continue to next step",
                                    "Review your application", "Next", "Review">>
                     IN \E i \in 1..4 :
                           /\ clicked'[1] = order[i]
                           /\ order[i] \in controls_present'
                           /\ \A j \in 1..(i - 1) : order[j] \notin controls_present'
               /\ controls_present' = {} => fa_pc' = "submit"
       /\ (fa_pc' = "submit" /\ fa_pc # "submit") => LookStep]_vars

\* a step with two controls present ended by a click on the earlier one
C35_Witness ==
    /\ controls_present = {"Review your application", "Review"}
    /\ clicked = <<"Review your application">>
    /\ nav_outcome = "clicked"
    /\ form_step = 2
    /\ fa_pc = "continue"

\* C39: the form-filling sub-flow of a job application terminates: once
\* _fill_application_form has been entered it performs finitely many form steps
\* and returns, whatever the page presents, also when a continue control is
\* present after every click.
C39_FormTerminates == (fa_pc # "idle") ~> (fa_pc \in {"submit", "done"})

\* the handling of one checkbox
HandleStep == cb_idx \in 1..Len(cb_values) /\ cb_idx' = cb_idx + 1

ApplyStep == kind = "job" /\ pc = "japply" /\ interrupted' = interrupted

\* C37: in a job campaign application_count <= viewed_jobs_count in every
\* reachable state, neither counter ever decreases, and a run of apply_to_job
\* that fails leaves application_count unchanged.
C37_ApplicationsWithinViewed ==
    [][kind' = "job" =>
          /\ application_count' <= viewed_jobs_count'
          /\ application_count' >= application_count
          /\ viewed_jobs_count' >= viewed_jobs_count
          /\ (ApplyStep /\ last_outcome' # "success")
                => application_count' = application_count]_vars

\* an application that failed after its card had been viewed, following one that
\* succeeded
C37_Witness ==
    /\ kind = "job"
    /\ viewed_jobs_count = 2
    /\ application_count = 1
    /\ last_outcome = "submit_timeout"

\* C38: whenever the Browser singleton is marked initialized it holds a driver,
\* after any sequence of constructions, successful or failed starts, and
\* cleanups.
C38_InitializedHasDriver == b_initialized => b_driver # None

\* the threads whose increment of _sleep_call_count is complete
Incremented == {t \in DOMAIN th_pc : th_pc[t] \in {"read", "release", "adjust", "done"}}

\* C40: when adaptive_sleep is called from several threads no counter update is
\* lost: in every interleaving _sleep_call_count equals the number of calls
\* whose increment is complete (n once n calls have returned), and the calls
\* take their delay range from pairwise distinct counter values.
C40_NoLostUpdate ==
    /\ sleep_call_count = Cardinality(Incremented)
    /\ \A t1, t2 \in DOMAIN th_count :
          (t1 # t2 /\ th_count[t1] # None) => th_count[t1] # th_count[t2]

\* every thread has returned from adaptive_sleep
C40_Witness ==
    /\ DOMAIN th_pc = 1..MaxThreads
    /\ \A t \in DOMAIN th_pc : th_pc[t] = "done"
    /\ sleep_call_count = MaxThreads

TypeOK ==
    /\ pc \in {"idle", "navigate", "find1", "find2", "fp_next", "buttons",
               "tabcheck", "drain", "drain_tab", "drain_restore", "next",
               "final_restore", "returned", "raised",
               "jnav_url", "jnav_search", "jloop", "jnext_empty", "jcards",
               "japply", "jnext", "jdone"}
    /\ focus \in handles \cup {NoWindow}
    /\ connection_count \in Nat
====
